---- MODULE Spec2Model ----
(***************************************************************************)
(* Model of katcoder-mysql-mcp: the tool handlers of MySQLMCPImplementation *)
(* (src/src/implementation.ts) that compile a structured operation into    *)
(* SQL text plus bound parameters, and the DatabaseManager                 *)
(* (src/unnamed/part_002) that executes statements on a pooled connection  *)
(* with retry.                                                             *)
(*                                                                         *)
(* Text is modelled by what the code does to it.  An identifier is a       *)
(* sequence of one-character strings.  Free text (a where value, a raw     *)
(* query) is a sequence of tokens: a token is a whole word or a symbol,    *)
(* and two adjacent word tokens spell one longer word.  SQL text is a      *)
(* sequence of pieces, one per segment of the template literal that built  *)
(* it: fixed template text, an interpolated identifier, an interpolated    *)
(* number, interpolated caller text, or a "?" placeholder.                 *)
(***************************************************************************)
EXTENDS Integers, Sequences, FiniteSets, TLC

VARIABLES
    call,       \* the last tool invocation: its tool, arguments and result
    pool,       \* DatabaseManager.pool: the set of checked-out connections
    conn,       \* per connection: the server-side transaction state
    committed,  \* per statement: how many times the database committed it
    proc,       \* per caller: the DatabaseManager call it is running
    config,     \* MCPServerConfig: the enabledTools the server was started with
    schema      \* the database: the names of the columns, tables and indexes

vars == <<call, pool, conn, committed, proc, config, schema>>

-----------------------------------------------------------------------------
(* Characters and identifiers *)

LowerSeq == <<"a","b","c","d","e","f","g","h","i","j","k","l","m",
              "n","o","p","q","r","s","t","u","v","w","x","y","z">>
UpperSeq == <<"A","B","C","D","E","F","G","H","I","J","K","L","M",
              "N","O","P","Q","R","S","T","U","V","W","X","Y","Z">>
Digits == {"0","1","2","3","4","5","6","7","8","9"}

Range(s) == {s[i] : i \in DOMAIN s}

\* the character class [a-zA-Z0-9_]
IsIdentChar(c) == c \in Range(LowerSeq) \cup Range(UpperSeq) \cup Digits \cup {"_"}

\* identifier.replace(/[^a-zA-Z0-9_]/g, '')
sanitizeIdentifier(identifier) == SelectSeq(identifier, IsIdentChar)

\* String.prototype.toLowerCase, one character
LowerChar(c) ==
    IF \E i \in DOMAIN UpperSeq : UpperSeq[i] = c
    THEN LowerSeq[CHOOSE i \in DOMAIN UpperSeq : UpperSeq[i] = c]
    ELSE c

toLowerCase(s) == [i \in DOMAIN s |-> LowerChar(s[i])]

\* validateTableName: "" when the name passes, else the message thrown
validateTableName(table) ==
    IF table = <<>> THEN "Invalid table name"
    ELSE IF sanitizeIdentifier(table) # table
         THEN "Invalid table name: contains illegal characters"
         ELSE ""

\* validateColumnName: "" when the name passes, else the message thrown
validateColumnName(column) ==
    IF column = <<>> THEN "Invalid column name"
    ELSE IF sanitizeIdentifier(column) # column
         THEN "Invalid column name: contains illegal characters"
         ELSE ""

\* the first message of a sequence of check results ("" = passed)
RECURSIVE FirstErr(_)
FirstErr(errs) ==
    IF errs = <<>> THEN ""
    ELSE IF Head(errs) # "" THEN Head(errs) ELSE FirstErr(Tail(errs))

-----------------------------------------------------------------------------
(* Free text: tokens and the regular expressions the code tests on it *)

SymbolToks == {" ", ";", "--", "/*", "*/", "=", "*", "'", ",", "(", ")"}

IsWordTok(t) == t \notin SymbolToks

\* the words of the modelled texts, each <<lower case, upper case>>
Words ==
    {<<"drop", "DROP">>, <<"delete", "DELETE">>, <<"select", "SELECT">>,
     <<"union", "UNION">>, <<"or", "OR">>, <<"and", "AND">>,
     <<"insert", "INSERT">>, <<"update", "UPDATE">>, <<"from", "FROM">>,
     <<"table", "TABLE">>, <<"create", "CREATE">>, <<"alter", "ALTER">>,
     <<"information_schema", "INFORMATION_SCHEMA">>,
     <<"int", "INT">>, <<"varchar", "VARCHAR">>, <<"foo", "FOO">>,
     <<"unsigned", "UNSIGNED">>, <<"not", "NOT">>, <<"null", "NULL">>,
     <<"default", "DEFAULT">>, <<"auto_increment", "AUTO_INCREMENT">>,
     <<"comment", "COMMENT">>, <<"btree", "BTREE">>, <<"hash", "HASH">>,
     <<"users", "USERS">>, <<"bob", "BOB">>, <<"x", "X">>, <<"y", "Y">>}

\* words written in mixed case, each <<as written, lower case, upper case>>
MixedWords == {<<"Drop", "drop", "DROP">>, <<"Int", "int", "INT">>}

\* String.prototype.toLowerCase and the /i flag, per token
LowerTok(t) ==
    IF \E w \in Words : w[2] = t THEN (CHOOSE w \in Words : w[2] = t)[1]
    ELSE IF \E w \in MixedWords : w[1] = t THEN (CHOOSE w \in MixedWords : w[1] = t)[2]
    ELSE t

\* String.prototype.toUpperCase, per token
UpperTok(t) ==
    IF \E w \in Words : w[1] = t THEN (CHOOSE w \in Words : w[1] = t)[2]
    ELSE IF \E w \in MixedWords : w[1] = t THEN (CHOOSE w \in MixedWords : w[1] = t)[3]
    ELSE t

\* \bword\b at position i: the token is a whole word of its own
WordAt(text, i) ==
    /\ IsWordTok(text[i])
    /\ (i = 1 \/ ~IsWordTok(text[i - 1]))
    /\ (i = Len(text) \/ ~IsWordTok(text[i + 1]))

\* /\b(w1|w2|...)\b/i.test(text)
HasWord(text, words) ==
    \E i \in DOMAIN text : LowerTok(text[i]) \in words /\ WordAt(text, i)

\* /(--|\/\*|\*\/)/.test(text)
HasCommentMarker(text) == \E i \in DOMAIN text : text[i] \in {"--", "/*", "*/"}

\* /(\b(or|and)\b.*=.*\b(or|and)\b)/i.test(text)
HasBooleanShape(text) ==
    \E i, j, k \in DOMAIN text :
        /\ i < j /\ j < k
        /\ LowerTok(text[i]) \in {"or", "and"} /\ WordAt(text, i)
        /\ text[j] = "="
        /\ LowerTok(text[k]) \in {"or", "and"} /\ WordAt(text, k)

InjectionKeywords ==
    {"union", "select", "insert", "update", "delete", "drop", "create",
     "alter", "exec", "execute", "script", "declare", "truncate"}

\* the dangerousPatterns loop of validateWhereConditions on one string value
IsDangerousValue(text) ==
    \/ HasWord(text, InjectionKeywords)
    \/ HasCommentMarker(text)
    \/ HasBooleanShape(text)

-----------------------------------------------------------------------------
(* Values, maps and SQL pieces *)

VNum(s) == [t |-> "num", v |-> <<s>>]
VStr(toks) == [t |-> "str", v |-> toks]
VNull == [t |-> "null", v |-> <<>>]
VArr(elems) == [t |-> "arr", v |-> elems]

\* a JS object used as a map: absent, or entries in insertion order
NoMap == [present |-> FALSE, entries |-> <<>>]
Map(entries) == [present |-> TRUE, entries |-> entries]
Entry(key, val) == [key |-> key, val |-> val]

Keys(m) == [i \in DOMAIN m.entries |-> m.entries[i].key]
Values(m) == [i \in DOMAIN m.entries |-> m.entries[i].val]

\* the backtick character, which a TLA+ string cannot hold
BT == "<backtick>"

Lit(s) == [k |-> "lit", src |-> "", v |-> <<s>>]
Id(from, chars) == [k |-> "id", src |-> from, v |-> chars]
Txt(from, toks) == [k |-> "txt", src |-> from, v |-> toks]
NumPiece(from, n) == [k |-> "num", src |-> from, v |-> <<ToString(n)>>]
Ph == [k |-> "ph", src |-> "", v |-> <<"?">>]

RECURSIVE Flatten(_)
Flatten(seqs) == IF seqs = <<>> THEN <<>> ELSE Head(seqs) \o Flatten(Tail(seqs))

\* parts.join(sep), each part a sequence of pieces
RECURSIVE Join(_, _)
Join(parts, sep) ==
    IF parts = <<>> THEN <<>>
    ELSE IF Len(parts) = 1 THEN parts[1]
    ELSE parts[1] \o <<Lit(sep)>> \o Join(Tail(parts), sep)

\* each name of a list between backticks, as names.map does with its template
Quoted(from, names) == [i \in DOMAIN names |-> <<Lit(BT), Id(from, names[i]), Lit(BT)>>]

\* n placeholders joined by sep
Placeholders(n, sep) == Join([i \in 1..n |-> <<Ph>>], sep)

-----------------------------------------------------------------------------
(* Clause builders *)

\* validateWhereConditions: "" when the map passes, else the message thrown
WhereEntryErr(e) ==
    IF validateColumnName(e.key) # "" THEN validateColumnName(e.key)
    ELSE IF e.val.t = "str" /\ IsDangerousValue(e.val.v)
         THEN "Potential SQL injection detected in where condition"
         ELSE ""

validateWhereConditions(where) ==
    IF ~where.present THEN "Invalid where conditions"
    ELSE FirstErr([i \in DOMAIN where.entries |-> WhereEntryErr(where.entries[i])])

\* validateData: "" when the object passes, else the message thrown
validateData(data) ==
    IF ~data.present THEN "Invalid data object"
    ELSE FirstErr([i \in DOMAIN data.entries |-> validateColumnName(data.entries[i].key)])

\* one condition of buildWhereClause
WhereCondition(e) ==
    LET key == <<Lit(BT), Id("whereKey", sanitizeIdentifier(e.key)), Lit(BT)>>
    IN  IF e.val.t = "null" THEN key \o <<Lit(" IS NULL")>>
        ELSE IF e.val.t = "arr"
             THEN key \o <<Lit(" IN (")>> \o Placeholders(Len(e.val.v), ",") \o <<Lit(")")>>
             ELSE key \o <<Lit(" = ?")>>

\* the parameters pushed with an array bound as one parameter
WhereParams_ArrayAsOne(e) ==
    IF e.val.t = "null" THEN <<>> ELSE <<e.val>>

\* the parameters one entry of buildWhereClause pushes
WhereParams(e) ==
    IF e.val.t = "null" THEN <<>>
    ELSE IF e.val.t = "arr" THEN [i \in DOMAIN e.val.v |-> VNum(e.val.v[i])]
    ELSE <<e.val>>

\* buildWhereClause: err # "" when it throws
buildWhereClause(where) ==
    LET err == validateWhereConditions(where)
        conditions == [i \in DOMAIN where.entries |-> WhereCondition(where.entries[i])]
    IN  IF err # "" THEN [err |-> err, clause |-> <<>>, params |-> <<>>]
        ELSE [err |-> "",
              clause |-> IF Len(conditions) > 0
                         THEN <<Lit("WHERE ")>> \o Join(conditions, " AND ")
                         ELSE <<>>,
              params |-> Flatten([i \in DOMAIN where.entries |->
                                      WhereParams(where.entries[i])])]

-----------------------------------------------------------------------------
(* Regular expressions over free text that span several tokens *)

\* tokens that are numbers (\d+)
NumberToks == {"0", "1", "2", "5", "10", "255"}

\* the positions where a match of the pattern that starts at i can end.  A
\* pattern item is a word (compared case-insensitively), "S+" for \s+, "S*"
\* for \s*, "D+" for \d+, "C+" for [^,]+ or "Q*" for [^']*
RECURSIVE MatchEnds(_, _, _)
MatchEnds(text, i, pat) ==
    IF pat = <<>> THEN {i}
    ELSE LET h == Head(pat)
             more(ok, again) ==
                 IF i <= Len(text) /\ ok THEN MatchEnds(text, i + 1, again) ELSE {}
         IN  CASE h = "S*" -> MatchEnds(text, i, Tail(pat))
                              \cup more(text[i] = " ", pat)
               [] h = "Q*" -> MatchEnds(text, i, Tail(pat))
                              \cup more(text[i] # "'", pat)
               [] h = "S+" -> more(text[i] = " ", <<"S*">> \o Tail(pat))
               [] h = "D+" -> more(text[i] \in NumberToks, Tail(pat))
                              \cup more(text[i] \in NumberToks, pat)
               [] h = "C+" -> more(text[i] # ",", Tail(pat))
                              \cup more(text[i] # ",", pat)
               [] OTHER -> more(LowerTok(text[i]) = h, Tail(pat))

Matches(text, pat) == \E i \in DOMAIN text : MatchEnds(text, i, pat) # {}

WriteKeywords ==
    {"insert", "update", "delete", "drop", "create", "alter", "truncate",
     "exec", "execute"}

\* /(;\s*drop\s+|;\s*delete\s+|;\s*update\s+|;\s*insert\s+)/i
HasStackedStatement(text) ==
    \E w \in {"drop", "delete", "update", "insert"} :
        Matches(text, <<";", "S*", w, "S+">>)

\* /(union\s+select|select\s+\*\s+from\s+information_schema)/i
HasExfiltration(text) ==
    \/ Matches(text, <<"union", "S+", "select">>)
    \/ Matches(text, <<"select", "S+", "*", "S+", "from", "S+", "information_schema">>)

\* the checks with the write-verb test applied whatever allowWrite is
ExecuteGate_ReadOnly(query, allowWrite) ==
    IF HasWord(query, WriteKeywords)
    THEN "Write operations are not allowed. Set allowWrite: true to enable."
    ELSE IF \/ HasStackedStatement(query)
            \/ HasCommentMarker(query)
            \/ HasExfiltration(query)
         THEN "Potentially dangerous SQL patterns detected in query."
         ELSE ""

\* the checks of handleExecute before it calls the database:
\* "" when the query passes, else the message thrown
ExecuteGate(query, allowWrite) ==
    IF ~allowWrite /\ HasWord(query, WriteKeywords)
    THEN "Write operations are not allowed. Set allowWrite: true to enable."
    ELSE IF \/ HasStackedStatement(query)
            \/ HasCommentMarker(query)
            \/ HasExfiltration(query)
         THEN "Potentially dangerous SQL patterns detected in query."
         ELSE ""

\* /\b(create|alter|drop|truncate)\s+(table|index|view|procedure|function|trigger)\b/i
IsDDL(text) ==
    \E i, j \in DOMAIN text :
        /\ i + 1 < j
        /\ LowerTok(text[i]) \in {"create", "alter", "drop", "truncate"}
        /\ (i = 1 \/ ~IsWordTok(text[i - 1]))
        /\ \A m \in (i + 1)..(j - 1) : text[m] = " "
        /\ LowerTok(text[j]) \in {"table", "index", "view", "procedure", "function", "trigger"}
        /\ (j = Len(text) \/ ~IsWordTok(text[j + 1]))

-----------------------------------------------------------------------------
(* Results of a handler *)

\* a statement handed to the DatabaseManager; via is the method called
Stmt(sql, params, via) == [sql |-> sql, params |-> params, via |-> via]

Res(ok, err, sent) == [ok |-> ok, err |-> err, sent |-> sent]

\* the handler threw before any call of the DatabaseManager
Fail(err) == Res(FALSE, err, <<>>)

\* the handler awaited dbManager.query(stmt); r is what the database answered
Send(stmt, r) ==
    IF r = "fail" THEN Res(FALSE, "Database error", <<stmt>>)
    ELSE Res(TRUE, "", <<stmt>>)

\* JS numbers and strings as the limit and offset arguments: absent, a number
\* (n its integer part, extra = it has a fraction) or a string (hasInt = it
\* starts with an integer n, extra = other characters)
NoNum == [t |-> "absent", hasInt |-> FALSE, n |-> 0, extra |-> FALSE]
JsNum(n, frac) == [t |-> "num", hasInt |-> TRUE, n |-> n, extra |-> frac]
JsStr(hasInt, n, junk) == [t |-> "str", hasInt |-> hasInt, n |-> n, extra |-> junk]

\* the truthiness test of if (x)
Truthy(x) ==
    CASE x.t = "absent" -> FALSE
      [] x.t = "num" -> x.n # 0 \/ x.extra
      [] OTHER -> x.hasInt \/ x.extra

\* parseInt(x): nan, or the leading integer
parseInt(x) == [nan |-> ~x.hasInt, n |-> x.n]

MaxLimit == 10000

\* the character class [a-zA-Z0-9_,\s] kept by handleRead's orderBy
IsOrderByChar(c) == IsIdentChar(c) \/ c \in {",", " "}

-----------------------------------------------------------------------------
(* Data handlers *)

ReadResult(args, r) ==
    LET useCols == Len(args.columns) > 0
        colErr == FirstErr([i \in DOMAIN args.columns |-> validateColumnName(args.columns[i])])
        w == IF args.where.present THEN buildWhereClause(args.where)
             ELSE [err |-> "", clause |-> <<>>, params |-> <<>>]
        limit == parseInt(args.limit)
        offset == parseInt(args.offset)
        sql == <<Lit("SELECT ")>>
               \o (IF useCols THEN Join(Quoted("column", args.columns), ", ") ELSE <<Lit("*")>>)
               \o <<Lit(" FROM "), Lit(BT), Id("table", args.table), Lit(BT)>>
               \o (IF w.clause # <<>> THEN <<Lit(" ")>> \o w.clause ELSE <<>>)
               \o (IF args.orderBy # <<>>
                   THEN <<Lit(" ORDER BY "), Txt("orderBy", SelectSeq(args.orderBy, IsOrderByChar))>>
                   ELSE <<>>)
               \o (IF Truthy(args.limit) THEN <<Lit(" LIMIT "), NumPiece("limit", limit.n)>> ELSE <<>>)
               \o (IF Truthy(args.offset) THEN <<Lit(" OFFSET "), NumPiece("offset", offset.n)>> ELSE <<>>)
    IN  IF validateTableName(args.table) # "" THEN Fail(validateTableName(args.table))
        ELSE IF useCols /\ colErr # "" THEN Fail(colErr)
        ELSE IF w.err # "" THEN Fail(w.err)
        ELSE IF Truthy(args.limit) /\ ~(~limit.nan /\ limit.n > 0 /\ limit.n <= MaxLimit)
             THEN Fail("Invalid limit value. Must be between 1 and 10000.")
        ELSE IF Truthy(args.offset) /\ ~(~offset.nan /\ offset.n >= 0)
             THEN Fail("Invalid offset value. Must be non-negative.")
        ELSE Send(Stmt(sql, w.params, "query"), r)

\* INSERT INTO `t` (cols) VALUES (?, ...) of handleCreate and of a create step
InsertSql(table, data) ==
    <<Lit("INSERT INTO "), Lit(BT), Id("table", table), Lit(BT), Lit(" (")>>
    \o Join(Quoted("dataKey", Keys(data)), ", ")
    \o <<Lit(") VALUES (")>> \o Placeholders(Len(data.entries), ", ") \o <<Lit(")")>>

CreateResult(args, r) ==
    IF validateTableName(args.table) # "" THEN Fail(validateTableName(args.table))
    ELSE IF validateData(args.data) # "" THEN Fail(validateData(args.data))
    ELSE Send(Stmt(InsertSql(args.table, args.data), Values(args.data), "query"), r)

\* UPDATE `t` SET `c` = ?, ... <where> of handleUpdate and of an update step
UpdateSql(table, data, whereClause) ==
    <<Lit("UPDATE "), Lit(BT), Id("table", table), Lit(BT), Lit(" SET ")>>
    \o Join([i \in DOMAIN data.entries |->
                <<Lit(BT), Id("dataKey", data.entries[i].key), Lit(BT), Lit(" = ?")>>], ", ")
    \o <<Lit(" ")>> \o whereClause

UpdateResult(args, r) ==
    LET w == buildWhereClause(args.where)
    IN  IF validateTableName(args.table) # "" THEN Fail(validateTableName(args.table))
        ELSE IF validateData(args.data) # "" THEN Fail(validateData(args.data))
        ELSE IF ~args.where.present
             THEN Fail("WHERE clause is required for UPDATE operations to prevent accidental updates")
        ELSE IF w.err # "" THEN Fail(w.err)
        ELSE Send(Stmt(UpdateSql(args.table, args.data, w.clause),
                       Values(args.data) \o w.params, "query"), r)

\* DELETE FROM `t` <where> of handleDelete and of a delete step
DeleteSql(table, whereClause) ==
    <<Lit("DELETE FROM "), Lit(BT), Id("table", table), Lit(BT), Lit(" ")>> \o whereClause

DeleteResult(args, r) ==
    LET w == buildWhereClause(args.where)
    IN  IF validateTableName(args.table) # "" THEN Fail(validateTableName(args.table))
        ELSE IF ~args.where.present
             THEN Fail("WHERE clause is required for DELETE operations to prevent accidental deletions")
        ELSE IF w.err # "" THEN Fail(w.err)
        ELSE Send(Stmt(DeleteSql(args.table, w.clause), w.params, "query"), r)

ExecuteResult(args, r) ==
    IF ExecuteGate(args.query, args.allowWrite) # ""
    THEN Fail(ExecuteGate(args.query, args.allowWrite))
    ELSE Send(Stmt(<<Txt("query", args.query)>>, args.params, "query"), r)

DDLResult(args, r) ==
    IF ~IsDDL(args.statement)
    THEN Fail("Invalid DDL statement. Only CREATE, ALTER, DROP, TRUNCATE operations are allowed.")
    ELSE Send(Stmt(<<Txt("statement", args.statement)>>, <<>>, "query"), r)

-----------------------------------------------------------------------------
(* Bulk insert and transaction *)

VUndef == [t |-> "undef", v |-> <<>>]

\* record[column]: the value under a key, undefined when the key is missing
Lookup(record, key) ==
    IF \E i \in DOMAIN record.entries : record.entries[i].key = key
    THEN record.entries[CHOOSE i \in DOMAIN record.entries : record.entries[i].key = key].val
    ELSE VUndef

\* the loop "Validate each record" of handleBulkInsert and of a bulk_insert step
RecordsErr(records) ==
    IF records = <<>> THEN "Bulk insert data must be a non-empty array"
    ELSE FirstErr([i \in DOMAIN records |-> validateData(records[i])])

\* the values flattened column by column instead of record by record
FlattenRecords_ColumnMajor(records, columns) ==
    Flatten([j \in DOMAIN columns |->
                [i \in DOMAIN records |-> Lookup(records[i], columns[j])]])

\* the loop "Flatten all values": row-major, in the order of columns
FlattenRecords(records, columns) ==
    Flatten([i \in DOMAIN records |->
                [j \in DOMAIN columns |-> Lookup(records[i], columns[j])]])

\* INSERT INTO `t` (cols) VALUES (?, ...), (?, ...): one group per record
BulkSql(table, quotedColumns, nColumns, nRecords) ==
    <<Lit("INSERT INTO "), Lit(BT), Id("table", table), Lit(BT), Lit(" (")>>
    \o Join(quotedColumns, ", ")
    \o <<Lit(") VALUES ")>>
    \o Join([i \in 1..nRecords |->
                <<Lit("(")>> \o Placeholders(nColumns, ", ") \o <<Lit(")")>>], ", ")

\* col.replace(/`/g, "") of DatabaseManager.bulkInsert
StripBackticks(col) == SelectSeq(col, LAMBDA c : c # BT)

\* DatabaseManager.bulkInsert: err # "" when it throws before pool.execute
bulkInsert(table, data) ==
    LET columns == Keys(data[1])
        same(i) == /\ Len(data[i].entries) = Len(columns)
                   /\ \A j \in DOMAIN columns : columns[j] \in Range(Keys(data[i]))
        sql == BulkSql(table,
                       [j \in DOMAIN columns |->
                           <<Lit(BT), Id("recordKey", StripBackticks(columns[j])), Lit(BT)>>],
                       Len(columns), Len(data))
    IN  IF data = <<>> THEN [err |-> "Data must be a non-empty array"]
        ELSE IF ~data[1].present THEN [err |-> "Each record must be a valid object"]
        ELSE IF columns = <<>> THEN [err |-> "Records must contain at least one column"]
        ELSE IF \E i \in 2..Len(data) : ~same(i)
             THEN [err |-> "Record has different structure than the first record"]
        ELSE [err |-> "", q |-> Stmt(sql, FlattenRecords(data, columns), "bulkInsert")]

BulkInsertResult(args, r) ==
    LET b == bulkInsert(args.table, args.data)
    IN  IF validateTableName(args.table) # "" THEN Fail(validateTableName(args.table))
        ELSE IF RecordsErr(args.data) # "" THEN Fail(RecordsErr(args.data))
        ELSE IF b.err # "" THEN Fail(b.err)
        ELSE Send(b.q, r)

\* one iteration of the loop of handleTransaction: err # "" when it throws
CompileStep(operation) ==
    LET w == buildWhereClause(operation.where)
        bulkColumns == Keys(operation.records[1])
        ok(q) == [err |-> "", q |-> q]
        bad(e) == [err |-> e]
    IN  CASE operation.type = "create" ->
               IF validateTableName(operation.table) # ""
               THEN bad(validateTableName(operation.table))
               ELSE IF validateData(operation.data) # "" THEN bad(validateData(operation.data))
               ELSE ok(Stmt(InsertSql(operation.table, operation.data),
                            Values(operation.data), "transaction"))
          [] operation.type = "bulk_insert" ->
               IF validateTableName(operation.table) # ""
               THEN bad(validateTableName(operation.table))
               ELSE IF RecordsErr(operation.records) # "" THEN bad(RecordsErr(operation.records))
               ELSE ok(Stmt(BulkSql(operation.table, Quoted("recordKey", bulkColumns),
                                    Len(bulkColumns), Len(operation.records)),
                            FlattenRecords(operation.records, bulkColumns), "transaction"))
          [] operation.type = "update" ->
               IF validateTableName(operation.table) # ""
               THEN bad(validateTableName(operation.table))
               ELSE IF validateData(operation.data) # "" THEN bad(validateData(operation.data))
               ELSE IF ~operation.where.present
                    THEN bad("WHERE clause required for UPDATE in transaction")
               ELSE IF w.err # "" THEN bad(w.err)
               ELSE ok(Stmt(UpdateSql(operation.table, operation.data, w.clause),
                            Values(operation.data) \o w.params, "transaction"))
          [] operation.type = "delete" ->
               IF validateTableName(operation.table) # ""
               THEN bad(validateTableName(operation.table))
               ELSE IF ~operation.where.present
                    THEN bad("WHERE clause required for DELETE in transaction")
               ELSE IF w.err # "" THEN bad(w.err)
               ELSE ok(Stmt(DeleteSql(operation.table, w.clause), w.params, "transaction"))
          [] operation.type = "execute" ->
               IF operation.query = <<>> THEN bad("Query required for EXECUTE in transaction")
               ELSE ok(Stmt(<<Txt("query", operation.query)>>, operation.params, "transaction"))
          [] OTHER -> bad("Unsupported operation type")

\* handleTransaction: every step is compiled before dbManager.transaction is called
TransactionResult(args, r) ==
    LET steps == [i \in DOMAIN args.operations |-> CompileStep(args.operations[i])]
        err == FirstErr([i \in DOMAIN steps |-> steps[i].err])
        queries == [i \in DOMAIN steps |-> steps[i].q]
    IN  IF args.operations = <<>> THEN Fail("Transaction must contain at least one operation")
        ELSE IF err # "" THEN Fail(err)
        ELSE IF r = "fail" THEN Res(FALSE, "Database error", queries)
        ELSE Res(TRUE, "", queries)

\* what connection.execute resolves to for a statement that writes: the
\* driver's ResultSetHeader, whose numbers the database chooses
ResultSetHeader ==
    [affectedRows |-> "number", insertId |-> "number", changedRows |-> "number",
     info |-> "string"]

\* what handleTransaction returns when dbManager.transaction resolved: the
\* array of the driver's results, one per statement, as it came back
TransactionReturn(operations, queries) ==
    [success |-> TRUE, operations |-> Len(operations),
     results |-> [i \in DOMAIN queries |-> ResultSetHeader]]

-----------------------------------------------------------------------------
(* Schema modification: validation *)

systemTables ==
    {<<"m","y","s","q","l">>,
     <<"i","n","f","o","r","m","a","t","i","o","n","_","s","c","h","e","m","a">>,
     <<"p","e","r","f","o","r","m","a","n","c","e","_","s","c","h","e","m","a">>,
     <<"s","y","s">>}

\* validateSchemaChangeSafety comparing the table name as written, without
\* toLowerCase
validateSchemaChangeSafety_CaseSensitive(operation, tableName, columnName) ==
    IF tableName \in systemTables
    THEN "Schema modifications are not allowed on system table"
    ELSE IF operation \in {"dropColumn", "modifyColumn"} /\ columnName = <<>>
         THEN "Column name is required"
         ELSE ""

\* validateSchemaChangeSafety: "" when the change is allowed, else the message
validateSchemaChangeSafety(operation, tableName, columnName) ==
    IF toLowerCase(tableName) \in systemTables
    THEN "Schema modifications are not allowed on system table"
    ELSE IF operation \in {"dropColumn", "modifyColumn"} /\ columnName = <<>>
         THEN "Column name is required"
         ELSE ""

allowedTypes ==
    {"INT", "INTEGER", "BIGINT", "SMALLINT", "TINYINT", "MEDIUMINT",
     "DECIMAL", "NUMERIC", "FLOAT", "DOUBLE", "REAL",
     "CHAR", "VARCHAR", "TEXT", "TINYTEXT", "MEDIUMTEXT", "LONGTEXT",
     "DATE", "TIME", "DATETIME", "TIMESTAMP", "YEAR",
     "BOOLEAN", "BOOL",
     "BINARY", "VARBINARY", "BLOB", "TINYBLOB", "MEDIUMBLOB", "LONGBLOB",
     "ENUM", "SET", "JSON"}

\* tokens that hold an underscore
UnderscoreToks == {"auto_increment", "AUTO_INCREMENT", "information_schema",
                   "INFORMATION_SCHEMA"}

\* [A-Z]+ after toUpperCase: a token of letters only
IsAlphaTok(t) == IsWordTok(t) /\ t \notin NumberToks /\ t \notin UnderscoreToks

\* the optional groups of typePattern, in order
TypeGroups ==
    << {<<"(", "D+", ")">>},
       {<<"S+", "unsigned">>, <<"S+", "signed">>, <<"S+", "zerofill">>},
       {<<"S+", "null">>, <<"S+", "not", "S+", "null">>},
       {<<"S+", "default", "S+", "C+">>},
       {<<"S+", "auto_increment">>,
        <<"S+", "on", "S+", "update", "S+", "current_timestamp">>},
       {<<"S+", "comment", "S+", "'", "Q*", "'">>} >>

\* the groups from g on match the text from position i to its end
RECURSIVE TypeRest(_, _, _)
TypeRest(text, i, g) ==
    IF g > Len(TypeGroups) THEN i = Len(text) + 1
    ELSE \/ TypeRest(text, i, g + 1)
         \/ \E pat \in TypeGroups[g] :
                \E j \in MatchEnds(text, i, pat) : TypeRest(text, j, g + 1)

\* validateColumnType: "" when the type passes, else the message thrown
validateColumnType(dataType) ==
    IF ~(dataType # <<>> /\ IsAlphaTok(dataType[1]) /\ TypeRest(dataType, 2, 1))
    THEN "Invalid column type"
    ELSE IF UpperTok(dataType[1]) \notin allowedTypes
         THEN "Unsupported column type"
         ELSE ""

\* validateIndexType: "" when the type passes, else the message thrown
validateIndexType(indexType) ==
    IF UpperTok(indexType) \notin {"BTREE", "HASH", "FULLTEXT", "SPATIAL"}
    THEN "Invalid index type"
    ELSE ""

\* text.replace(/'/g, "''")
EscapeQuotes(text) ==
    Flatten([i \in DOMAIN text |-> IF text[i] = "'" THEN <<"'", "'">> ELSE <<text[i]>>])

\* a column definition object; nullable is "true", "false" or "unset"
NoColumn == [present |-> FALSE, name |-> <<>>, type |-> <<>>, nullable |-> "unset",
             default |-> VUndef, autoIncrement |-> FALSE, comment |-> <<>>]

buildColumnDefinition(column) ==
    <<Lit(BT), Id("columnName", sanitizeIdentifier(column.name)), Lit(BT), Lit(" "),
      Txt("type", column.type)>>
    \o (CASE column.nullable = "false" -> <<Lit(" NOT NULL")>>
          [] column.nullable = "true" -> <<Lit(" NULL")>>
          [] OTHER -> <<>>)
    \o (CASE column.default.t = "undef" -> <<>>
          [] column.default.t = "null" -> <<Lit(" DEFAULT NULL")>>
          [] column.default.t = "str" ->
               <<Lit(" DEFAULT '"), Txt("default", EscapeQuotes(column.default.v)), Lit("'")>>
          [] OTHER -> <<Lit(" DEFAULT "), Txt("default", column.default.v)>>)
    \o (IF column.autoIncrement THEN <<Lit(" AUTO_INCREMENT")>> ELSE <<>>)
    \o (IF column.comment # <<>>
        THEN <<Lit(" COMMENT '"), Txt("comment", EscapeQuotes(column.comment)), Lit("'")>>
        ELSE <<>>)

\* this.getDatabaseConfig().database
database == <<"a","p","p">>

\* the existence pre-check on INFORMATION_SCHEMA.COLUMNS
ColumnExistsQuery(table, column) ==
    Stmt(<<Lit("SELECT COLUMN_NAME FROM INFORMATION_SCHEMA.COLUMNS WHERE TABLE_SCHEMA = "),
           Ph, Lit(" AND TABLE_NAME = "), Ph, Lit(" AND COLUMN_NAME = "), Ph>>,
         <<VStr(database), VStr(table), VStr(column)>>, "query")

\* the existence pre-check on INFORMATION_SCHEMA.TABLES
TableExistsQuery(table) ==
    Stmt(<<Lit("SELECT TABLE_NAME FROM INFORMATION_SCHEMA.TABLES WHERE TABLE_SCHEMA = "),
           Ph, Lit(" AND TABLE_NAME = "), Ph>>,
         <<VStr(database), VStr(table)>>, "query")

\* the existence pre-check on INFORMATION_SCHEMA.STATISTICS
IndexExistsQuery(table, name) ==
    Stmt(<<Lit("SELECT INDEX_NAME FROM INFORMATION_SCHEMA.STATISTICS WHERE TABLE_SCHEMA = "),
           Ph, Lit(" AND TABLE_NAME = "), Ph, Lit(" AND INDEX_NAME = "), Ph>>,
         <<VStr(database), VStr(table), VStr(name)>>, "query")

\* the handler awaited the queries in order; db[i] is the answer to the i-th
\* ("rows", "empty" or "fail") and need[i] the answer it goes on with; the
\* last query is the mutating statement
RECURSIVE Chain_Unchecked(_, _, _, _, _)
\* Chain without the test of the answer of a pre-check
Chain_Unchecked(queries, need, errs, db, done) ==
    IF queries = <<>> THEN Res(TRUE, "", done)
    ELSE LET sent == Append(done, Head(queries))
         IN  IF Head(db) = "fail" THEN Res(FALSE, "Database error", sent)
             ELSE Chain_Unchecked(Tail(queries), Tail(need), Tail(errs), Tail(db), sent)

RECURSIVE Chain(_, _, _, _, _)
Chain(queries, need, errs, db, done) ==
    IF queries = <<>> THEN Res(TRUE, "", done)
    ELSE LET sent == Append(done, Head(queries))
         IN  IF Head(db) = "fail" THEN Res(FALSE, "Database error", sent)
             ELSE IF Head(need) # "any" /\ Head(db) # Head(need)
                  THEN Res(FALSE, Head(errs), sent)
             ELSE Chain(Tail(queries), Tail(need), Tail(errs), Tail(db), sent)

-----------------------------------------------------------------------------
(* Schema modification: handlers *)

AddColumnResult(args, db) ==
    LET safety == validateSchemaChangeSafety("addColumn", args.table, args.column.name)
        sql == <<Lit("ALTER TABLE "), Lit(BT), Id("table", args.table), Lit(BT),
                 Lit(" ADD COLUMN ")>>
               \o buildColumnDefinition(args.column)
               \o (IF args.position.present
                   THEN IF args.position.after # <<>>
                        THEN <<Lit(" AFTER "), Lit(BT),
                               Id("after", sanitizeIdentifier(args.position.after)), Lit(BT)>>
                        ELSE IF args.position.first THEN <<Lit(" FIRST")>> ELSE <<>>
                   ELSE <<>>)
    IN  IF validateTableName(args.table) # "" THEN Fail(validateTableName(args.table))
        ELSE IF safety # "" THEN Fail(safety)
        ELSE IF ~args.column.present THEN Fail("Column definition is required")
        ELSE IF args.column.name = <<>> \/ args.column.type = <<>>
             THEN Fail("Column name and type are required")
        ELSE IF validateColumnName(args.column.name) # ""
             THEN Fail(validateColumnName(args.column.name))
        ELSE IF validateColumnType(args.column.type) # ""
             THEN Fail(validateColumnType(args.column.type))
        ELSE Chain(<<Stmt(sql, <<>>, "query")>>, <<"any">>, <<"">>, db, <<>>)

DropColumnResult(args, db) ==
    LET safety == validateSchemaChangeSafety("dropColumn", args.table, args.column)
        sql == <<Lit("ALTER TABLE "), Lit(BT), Id("table", args.table), Lit(BT),
                 Lit(" DROP COLUMN "), Lit(BT), Id("column", args.column), Lit(BT)>>
    IN  IF validateTableName(args.table) # "" THEN Fail(validateTableName(args.table))
        ELSE IF validateColumnName(args.column) # "" THEN Fail(validateColumnName(args.column))
        ELSE IF safety # "" THEN Fail(safety)
        ELSE Chain(<<ColumnExistsQuery(args.table, args.column), Stmt(sql, <<>>, "query")>>,
                   <<"rows", "any">>, <<"Column does not exist", "">>, db, <<>>)

ModifyColumnResult(args, db) ==
    LET safety == validateSchemaChangeSafety("modifyColumn", args.table, args.column)
        \* { name: args.column, ...args.newDefinition }
        merged == IF args.newDefinition.name # <<>> THEN args.newDefinition
                  ELSE [args.newDefinition EXCEPT !.name = args.column]
        sql == <<Lit("ALTER TABLE "), Lit(BT), Id("table", args.table), Lit(BT),
                 Lit(" MODIFY COLUMN ")>>
               \o buildColumnDefinition(merged)
    IN  IF validateTableName(args.table) # "" THEN Fail(validateTableName(args.table))
        ELSE IF validateColumnName(args.column) # "" THEN Fail(validateColumnName(args.column))
        ELSE IF safety # "" THEN Fail(safety)
        ELSE IF ~args.newDefinition.present THEN Fail("New column definition is required")
        ELSE IF validateColumnType(args.newDefinition.type) # ""
             THEN Fail(validateColumnType(args.newDefinition.type))
        ELSE Chain(<<Stmt(sql, <<>>, "query")>>, <<"any">>, <<"">>, db, <<>>)

RenameColumnResult(args, db) ==
    LET safety == validateSchemaChangeSafety("renameColumn", args.table, args.oldName)
        \* ${args.newDefinition || args.oldName}
        definition == IF args.newDefinition # <<>>
                      THEN Txt("newDefinition", args.newDefinition)
                      ELSE Id("oldName", args.oldName)
        sql == <<Lit("ALTER TABLE "), Lit(BT), Id("table", args.table), Lit(BT),
                 Lit(" CHANGE COLUMN "), Lit(BT), Id("oldName", args.oldName), Lit(BT),
                 Lit(" "), Lit(BT), Id("newName", args.newName), Lit(BT), Lit(" "),
                 definition>>
    IN  IF validateTableName(args.table) # "" THEN Fail(validateTableName(args.table))
        ELSE IF validateColumnName(args.oldName) # "" THEN Fail(validateColumnName(args.oldName))
        ELSE IF validateColumnName(args.newName) # "" THEN Fail(validateColumnName(args.newName))
        ELSE IF safety # "" THEN Fail(safety)
        ELSE Chain(<<ColumnExistsQuery(args.table, args.oldName),
                     ColumnExistsQuery(args.table, args.newName),
                     Stmt(sql, <<>>, "query")>>,
                   <<"rows", "empty", "any">>,
                   <<"Column does not exist", "Column already exists", "">>, db, <<>>)

RenameTableResult(args, db) ==
    LET safety == validateSchemaChangeSafety("renameTable", args.oldName, <<>>)
        sql == <<Lit("RENAME TABLE "), Lit(BT), Id("oldName", args.oldName), Lit(BT),
                 Lit(" TO "), Lit(BT), Id("newName", args.newName), Lit(BT)>>
    IN  IF validateTableName(args.oldName) # "" THEN Fail(validateTableName(args.oldName))
        ELSE IF validateTableName(args.newName) # "" THEN Fail(validateTableName(args.newName))
        ELSE IF safety # "" THEN Fail(safety)
        ELSE Chain(<<TableExistsQuery(args.oldName), TableExistsQuery(args.newName),
                     Stmt(sql, <<>>, "query")>>,
                   <<"rows", "empty", "any">>,
                   <<"Table does not exist", "Table already exists", "">>, db, <<>>)

AddIndexResult(args, db) ==
    LET safety == validateSchemaChangeSafety("addIndex", args.table, <<>>)
        colErr == FirstErr([i \in DOMAIN args.columns |-> validateColumnName(args.columns[i])])
        indexType == IF args.type # "" THEN <<Txt("type", <<args.type>>), Lit(" INDEX")>>
                     ELSE IF args.unique THEN <<Lit("UNIQUE INDEX")>>
                     ELSE <<Lit("INDEX")>>
        columnList == Join([i \in DOMAIN args.columns |->
                               <<Lit(BT), Id("column", sanitizeIdentifier(args.columns[i])),
                                 Lit(BT)>>], ", ")
        sql == <<Lit("CREATE ")>> \o indexType
               \o <<Lit(" "), Lit(BT), Id("name", sanitizeIdentifier(args.name)), Lit(BT),
                    Lit(" ON "), Lit(BT), Id("table", args.table), Lit(BT), Lit(" (")>>
               \o columnList \o <<Lit(")")>>
    IN  IF validateTableName(args.table) # "" THEN Fail(validateTableName(args.table))
        ELSE IF safety # "" THEN Fail(safety)
        ELSE IF args.name = <<>> \/ args.columns = <<>>
             THEN Fail("Index name and columns are required")
        ELSE IF colErr # "" THEN Fail(colErr)
        ELSE IF args.type # "" /\ validateIndexType(args.type) # ""
             THEN Fail(validateIndexType(args.type))
        ELSE Chain(<<Stmt(sql, <<>>, "query")>>, <<"any">>, <<"">>, db, <<>>)

DropIndexResult(args, db) ==
    LET safety == validateSchemaChangeSafety("dropIndex", args.table, <<>>)
        sql == <<Lit("DROP INDEX "), Lit(BT), Id("name", sanitizeIdentifier(args.name)),
                 Lit(BT), Lit(" ON "), Lit(BT), Id("table", args.table), Lit(BT)>>
    IN  IF validateTableName(args.table) # "" THEN Fail(validateTableName(args.table))
        ELSE IF safety # "" THEN Fail(safety)
        ELSE IF args.name = <<>> THEN Fail("Index name is required")
        ELSE Chain(<<IndexExistsQuery(args.table, args.name), Stmt(sql, <<>>, "query")>>,
                   <<"rows", "any">>, <<"Index does not exist", "">>, db, <<>>)

-----------------------------------------------------------------------------
(* The inputs the handlers are called with *)

MaxSteps == 2     \* the longest operations list of a transaction call
MaxRecords == 2   \* the longest record list of a bulk insert

\* sequences over S of length 0..n
SeqsUpTo(S, n) == UNION {[1..m -> S] : m \in 0..n}

t1 == <<"t","1">>
Usr == <<"U","s","r">>
id == <<"i","d">>
colA == <<"a">>
idx1 == <<"i","x","1">>

\* names that are not identifiers: empty, or holding ; - space or a backtick
BadNames == {<<>>, <<"t",";","x">>, <<"a","-","b">>, <<"a"," ","b">>, <<"t",BT,"x">>}

\* names of system schemas in several spellings, and a name that only starts like one
SystemNames ==
    {<<"m","y","s","q","l">>, <<"M","y","S","Q","L">>, <<"S","Y","S">>,
     <<"i","n","f","o","r","m","a","t","i","o","n","_","s","c","h","e","m","a">>,
     <<"P","e","r","f","o","r","m","a","n","c","e","_","S","c","h","e","m","a">>}

TableNames == {t1, Usr, <<"s","y","s","t">>} \cup BadNames
SchemaTableNames == TableNames \cup SystemNames
ColumnNames == {id, colA, <<>>, <<"a","-","b">>, <<"t",BT,"x">>}

harmless == VStr(<<"bob">>)
hostile == VStr(<<"x", "'", ";", " ", "DROP", " ", "TABLE", " ", "users", "--">>)

WhereMaps ==
    {NoMap, Map(<<>>),
     Map(<<Entry(id, VNum("5"))>>),
     Map(<<Entry(colA, VNull), Entry(id, VArr(<<"1", "2">>))>>),
     Map(<<Entry(id, VArr(<<"1", "2">>)), Entry(colA, VNum("5")), Entry(<<"c">>, VNull)>>),
     Map(<<Entry(id, VArr(<<>>))>>),
     Map(<<Entry(colA, harmless)>>),
     Map(<<Entry(colA, VStr(<<"drop", "x">>))>>),
     Map(<<Entry(colA, hostile)>>),
     Map(<<Entry(colA, VStr(<<"x", "--">>))>>),
     Map(<<Entry(colA, VStr(<<"x", " ", "OR", " ", "1", "=", "1", " ", "or", " ", "y">>))>>),
     Map(<<Entry(<<"a", "-", "b">>, VNum("1"))>>)}

DataMaps ==
    {NoMap,
     Map(<<Entry(colA, VNum("1"))>>),
     Map(<<Entry(colA, hostile), Entry(id, VNum("2"))>>),
     Map(<<Entry(<<"t", BT, "x">>, VNum("1"))>>)}

Records ==
    {NoMap,
     Map(<<>>),
     Map(<<Entry(colA, VNum("1")), Entry(id, VNum("2"))>>),
     Map(<<Entry(id, VNum("3")), Entry(colA, hostile)>>),
     Map(<<Entry(colA, VNum("4")), Entry(<<"c">>, VNum("5"))>>),
     Map(<<Entry(colA, VNum("6"))>>),
     Map(<<Entry(<<"t", BT, "x">>, VNum("1"))>>)}

Limits ==
    {NoNum, JsNum(0, FALSE), JsNum(1, FALSE), JsNum(10000, FALSE), JsNum(10001, FALSE),
     JsNum(-1, FALSE), JsNum(2, TRUE), JsNum(0, TRUE), JsStr(TRUE, 5, FALSE),
     JsStr(TRUE, 5, TRUE), JsStr(TRUE, 0, FALSE), JsStr(FALSE, 0, TRUE)}

Offsets == {NoNum, JsNum(0, FALSE), JsNum(3, FALSE), JsNum(-1, FALSE), JsStr(FALSE, 0, TRUE)}

OrderBys ==
    {<<>>, <<"i","d">>,
     <<"i","d",";","d","r","o","p"," ","t","-","-">>}

Queries ==
    {<<>>,
     <<"SELECT", " ", "1">>,
     <<"select", " ", "*", " ", "from", " ", "users">>,
     <<"DROP", " ", "TABLE", " ", "users">>,
     <<"drop", "x">>,
     <<"SELECT", " ", "1", ";", " ", "DROP", " ", "TABLE", " ", "users">>,
     <<"SELECT", " ", "1", " ", "--", " ", "x">>,
     <<"select", " ", "x", " ", "union", " ", "select", " ", "y">>,
     <<"select", " ", "*", " ", "from", " ", "INFORMATION_SCHEMA">>,
     <<"update", " ", "users">>,
     <<"create", " ", "table", " ", "x">>}

ParamLists == {<<>>, <<VNum("1")>>}

\* what the database answers to one statement
DbAnswers == {"rows", "empty", "fail"}

NoStep == [type |-> "", table |-> <<>>, data |-> NoMap, records |-> <<>>,
           where |-> NoMap, query |-> <<>>, params |-> <<>>, allowWrite |-> FALSE]

Steps ==
    {[NoStep EXCEPT !.type = "create", !.table = t1, !.data = d] :
         d \in {NoMap, Map(<<Entry(colA, hostile)>>)}}
    \cup {[NoStep EXCEPT !.type = "update", !.table = t1,
                         !.data = Map(<<Entry(colA, VNum("1"))>>), !.where = w] :
              w \in {NoMap, Map(<<>>), Map(<<Entry(id, VNum("5"))>>)}}
    \cup {[NoStep EXCEPT !.type = "delete", !.table = t, !.where = w] :
              t \in {t1, <<"t", ";", "x">>},
              w \in {NoMap, Map(<<>>), Map(<<Entry(id, VNum("5"))>>), Map(<<Entry(colA, hostile)>>)}}
    \cup {[NoStep EXCEPT !.type = "execute", !.query = q, !.allowWrite = a] :
              q \in {<<>>, <<"SELECT", " ", "1">>, <<"DROP", " ", "TABLE", " ", "users">>,
                     <<"SELECT", " ", "1", " ", "--", " ", "x">>},
              a \in BOOLEAN}
    \cup {[NoStep EXCEPT !.type = "bulk_insert", !.table = t1, !.records = rs] :
              rs \in {<<>>,
                      <<Map(<<Entry(colA, VNum("1")), Entry(id, VNum("2"))>>),
                        Map(<<Entry(colA, VNum("4")), Entry(<<"c">>, VNum("5"))>>)>>}}
    \cup {[NoStep EXCEPT !.type = ty, !.table = t1] :
              ty \in {"add_column", "add_index", "transaction"}}

Columns ==
    {NoColumn}
    \cup {[NoColumn EXCEPT !.present = TRUE, !.name = n, !.type = <<"INT">>] :
              n \in {colA, <<"a", "-", "b">>}}
    \cup {[NoColumn EXCEPT !.present = TRUE, !.name = colA, !.type = ty] :
              ty \in {<<>>, <<"varchar", "(", "255", ")", " ", "NOT", " ", "NULL">>,
                      <<"FOO">>, <<"INT", ";", " ", "DROP", " ", "TABLE", " ", "users">>,
                      <<"INT", " ", "DEFAULT", " ", "0", ";", " ", "DROP", " ", "TABLE", " ", "users">>}}
    \cup {[NoColumn EXCEPT !.present = TRUE, !.name = colA, !.type = <<"INT">>,
                           !.nullable = nl, !.default = d, !.autoIncrement = ai, !.comment = c] :
              nl \in {"true", "false"},
              d \in {VNull, VNum("0"), hostile},
              ai \in BOOLEAN,
              c \in {<<>>, <<"x", "'", "y">>}}

NoPosition == [present |-> FALSE, after |-> <<>>, first |-> FALSE]

Positions ==
    {NoPosition,
     [present |-> TRUE, after |-> <<>>, first |-> TRUE],
     [present |-> TRUE, after |-> id, first |-> FALSE],
     [present |-> TRUE, after |-> <<"t", BT, "x">>, first |-> FALSE]}

Definitions == {<<>>, <<"INT">>, <<"INT", ";", " ", "DROP", " ", "TABLE", " ", "users">>}

IndexNames == {idx1, <<>>, <<"i", "-", "x">>, <<"t", BT, "x">>}

-----------------------------------------------------------------------------
(* The MCP server: the tool catalog and the two request handlers *)

\* getAllTools(): the names of the tools of the catalog
getAllTools ==
    {"list", "describe_table", "read", "create", "update", "delete", "execute",
     "ddl", "transaction", "bulk_insert", "add_column", "drop_column",
     "modify_column", "rename_column", "rename_table", "add_index", "drop_index",
     "utility", "show_table_data"}

\* the enabledTools argument of the command line: "all" stands for this list
AllArg ==
    {"list", "read", "create", "update", "delete", "execute", "ddl",
     "transaction", "bulk_insert", "utility"}

\* the configurations the server is started with: the default, a read-only
\* list, and a list that names every tool of the catalog
EveryTool == [enabledTools |-> getAllTools]

Configs == {[enabledTools |-> AllArg], [enabledTools |-> {"list", "read", "utility"}],
            EveryTool}

\* getEnabledTools(): the catalog filtered by config.enabledTools
getEnabledTools == {tool \in getAllTools : tool \in config.enabledTools}

\* error.stack of an Error: its message followed by the frames of the throw
Stack(message) == [kind |-> "stack", message |-> message]

\* a request handler whose catch block misses the errors executeTool throws
\* itself: they leave the handler as an exception, no result is built
CallToolResponse_Uncaught(res) ==
    IF res.ok THEN [isError |-> FALSE, content |-> "result"]
    ELSE IF res.err \in {"Unknown tool", "handleDescribeTable not implemented",
                         "handleShowTableData not implemented"}
         THEN [isError |-> FALSE,
               content |-> [error |-> FALSE, message |-> "", details |-> Stack(res.err)]]
         ELSE [isError |-> TRUE,
               content |-> [error |-> TRUE, message |-> res.err, details |-> Stack(res.err)]]

\* the CallTool request handler around executeTool: the result as JSON text,
\* or the catch block's error object; every value the handlers throw is an
\* Error, so message is error.message and details is error.stack
CallToolResponse(res) ==
    IF res.ok THEN [isError |-> FALSE, content |-> "result"]
    ELSE [isError |-> TRUE,
          content |-> [error |-> TRUE, message |-> res.err, details |-> Stack(res.err)]]

-----------------------------------------------------------------------------
(* Tool invocations: one action per handler *)

engineVars == <<pool, conn, committed, proc>>

\* the record of a CallTool request: executeTool dispatched on the name, the
\* handler ran on args and left res, and the request handler answered
Called(tool, args, res) ==
    [tool |-> tool, args |-> args, res |-> res, response |-> CallToolResponse(res)]

\* the record of an invocation that awaited the answers of the database one
\* by one: db holds the answers it got, one per statement sent
CalledWith(tool, args, res, db) ==
    [tool |-> tool, args |-> args, res |-> res, response |-> CallToolResponse(res),
     db |-> SubSeq(db, 1, Len(res.sent))]

\* the handlers keep no state between invocations, so a behaviour is one
\* invocation: a handler is called when none has been
Idle == call.tool = "none"

ColumnLists == {<<>>, <<id>>, <<id, <<"a", "-", "b">>>>}

NoRead == [table |-> t1, columns |-> <<>>, where |-> NoMap, orderBy |-> <<>>,
           limit |-> NoNum, offset |-> NoNum]

handleRead ==
    /\ Idle
    /\ \E args \in {[NoRead EXCEPT !.table = t, !.columns = c, !.where = w] :
                        t \in TableNames, c \in ColumnLists, w \in WhereMaps}
                   \cup {[NoRead EXCEPT !.where = w, !.orderBy = o, !.limit = l, !.offset = f] :
                             w \in {NoMap, Map(<<Entry(id, VNum("5"))>>)},
                             o \in OrderBys, l \in Limits, f \in Offsets},
          r \in DbAnswers :
           /\ call' = Called("read", args, ReadResult(args, r))
           /\ UNCHANGED <<schema, config, engineVars>>

handleCreate ==
    /\ Idle
    /\ \E args \in [table : TableNames, data : DataMaps], r \in DbAnswers :
           /\ call' = Called("create", args, CreateResult(args, r))
           /\ UNCHANGED <<schema, config, engineVars>>

handleUpdate ==
    /\ Idle
    /\ \E args \in [table : TableNames, data : DataMaps, where : WhereMaps], r \in DbAnswers :
           /\ call' = Called("update", args, UpdateResult(args, r))
           /\ UNCHANGED <<schema, config, engineVars>>

handleDelete ==
    /\ Idle
    /\ \E args \in [table : TableNames, where : WhereMaps], r \in DbAnswers :
           /\ call' = Called("delete", args, DeleteResult(args, r))
           /\ UNCHANGED <<schema, config, engineVars>>

handleExecute ==
    /\ Idle
    /\ \E args \in [query : Queries, params : ParamLists, allowWrite : BOOLEAN], r \in DbAnswers :
           /\ call' = Called("execute", args, ExecuteResult(args, r))
           /\ UNCHANGED <<schema, config, engineVars>>

handleDDL ==
    /\ Idle
    /\ \E args \in [statement : Queries], r \in DbAnswers :
           /\ call' = Called("ddl", args, DDLResult(args, r))
           /\ UNCHANGED <<schema, config, engineVars>>

handleTransaction ==
    /\ Idle
    /\ \E args \in [operations : SeqsUpTo(Steps, MaxSteps)], r \in {"rows", "fail"} :
           /\ call' = Called("transaction", args, TransactionResult(args, r))
           /\ UNCHANGED <<schema, config, engineVars>>

handleBulkInsert ==
    /\ Idle
    /\ \E args \in [table : {t1, <<"t", ";", "x">>}, data : SeqsUpTo(Records, MaxRecords)],
          r \in DbAnswers :
           /\ call' = Called("bulk_insert", args, BulkInsertResult(args, r))
           /\ UNCHANGED <<schema, config, engineVars>>

handleAddColumn ==
    /\ Idle
    /\ \E args \in [table : SchemaTableNames, column : Columns, position : Positions],
          db \in [1..1 -> DbAnswers] :
           /\ call' = CalledWith("add_column", args, AddColumnResult(args, db), db)
           /\ UNCHANGED <<schema, config, engineVars>>

handleDropColumn ==
    /\ Idle
    /\ \E args \in [table : SchemaTableNames, column : ColumnNames],
          db \in [1..2 -> DbAnswers] :
           /\ call' = CalledWith("drop_column", args, DropColumnResult(args, db), db)
           /\ UNCHANGED <<schema, config, engineVars>>

handleModifyColumn ==
    /\ Idle
    /\ \E args \in [table : SchemaTableNames, column : ColumnNames, newDefinition : Columns],
          db \in [1..1 -> DbAnswers] :
           /\ call' = CalledWith("modify_column", args, ModifyColumnResult(args, db), db)
           /\ UNCHANGED <<schema, config, engineVars>>

handleRenameColumn ==
    /\ Idle
    /\ \E args \in [table : SchemaTableNames, oldName : ColumnNames, newName : ColumnNames,
                    newDefinition : Definitions],
          db \in [1..3 -> DbAnswers] :
           /\ call' = CalledWith("rename_column", args, RenameColumnResult(args, db), db)
           /\ UNCHANGED <<schema, config, engineVars>>

handleRenameTable ==
    /\ Idle
    /\ \E args \in [oldName : SchemaTableNames, newName : TableNames],
          db \in [1..3 -> DbAnswers] :
           /\ call' = CalledWith("rename_table", args, RenameTableResult(args, db), db)
           /\ UNCHANGED <<schema, config, engineVars>>

handleAddIndex ==
    /\ Idle
    /\ \E args \in [table : SchemaTableNames, name : IndexNames, columns : ColumnLists,
                    type : {"", "BTREE", "btree", "FOO"}, unique : BOOLEAN],
          db \in [1..1 -> DbAnswers] :
           /\ call' = CalledWith("add_index", args, AddIndexResult(args, db), db)
           /\ UNCHANGED <<schema, config, engineVars>>

handleDropIndex ==
    /\ Idle
    /\ \E args \in [table : SchemaTableNames, name : IndexNames],
          db \in [1..2 -> DbAnswers] :
           /\ call' = CalledWith("drop_index", args, DropIndexResult(args, db), db)
           /\ UNCHANGED <<schema, config, engineVars>>

-----------------------------------------------------------------------------
(* The DatabaseManager: configuration, driver errors, classification *)

MaxConns == 1          \* config.connectionLimit: the size of the pool
MaxConfigRetries == 2  \* the largest config.maxRetries
MaxStmts == 2          \* the longest statement list of a transaction

DefaultMaxRetries == 3
DefaultRetryDelay == 1000
TestAttempts == 3
TestDelay == 1000
WarmupMax == 5

Conns == 1..MaxConns
Procs == {1}
StmtTags == Procs \X (1..MaxStmts)

connectionLimit == MaxConns

\* an error object of the driver
DriverError(code, errno, message) == [code |-> code, errno |-> errno, message |-> message]

NoError == DriverError("", "", <<>>)

DriverErrors ==
    {DriverError("ECONNREFUSED", "", <<"connect", " ", "ECONNREFUSED">>),
     DriverError("ETIMEDOUT", "", <<"connect", " ", "ETIMEDOUT">>),
     DriverError("", "ETIMEDOUT", <<"read", " ", "failed">>),
     DriverError("ENOTFOUND", "", <<"getaddrinfo", " ", "ENOTFOUND">>),
     DriverError("ECONNRESET", "", <<"read", " ", "ECONNRESET">>),
     DriverError("EPIPE", "", <<"write", " ", "EPIPE">>),
     DriverError("ER_LOCK_WAIT_TIMEOUT", "", <<"Lock", " ", "wait", " ", "timeout", " ", "exceeded">>),
     DriverError("ER_LOCK_DEADLOCK", "", <<"Deadlock", " ", "found">>),
     DriverError("PROTOCOL_CONNECTION_LOST", "", <<"Connection", " ", "lost">>),
     DriverError("PROTOCOL_ENQUEUE_AFTER_FATAL_ERROR", "", <<"Cannot", " ", "enqueue">>),
     DriverError("ER_ACCESS_DENIED_ERROR", "", <<"Access", " ", "denied">>),
     DriverError("ER_DUP_ENTRY", "", <<"Duplicate", " ", "entry">>),
     DriverError("ER_DUP_ENTRY", "", <<"Duplicate", " ", "entry", " ", "'", "timeout", "'">>),
     DriverError("ER_PARSE_ERROR", "", <<"You", " ", "have", " ", "an", " ", "error">>),
     DriverError("ER_BAD_FIELD_ERROR", "", <<"Unknown", " ", "column">>),
     DriverError("", "", <<"Query", " ", "inactivity", " ", "timeout">>)}

\* message.includes(part): part occurs as a run of tokens
Includes(message, part) ==
    \E i \in 0..(Len(message) - Len(part)) :
        \A j \in DOMAIN part : message[i + j] = part[j]

retryableErrorCodes ==
    {"ECONNREFUSED", "ETIMEDOUT", "ENOTFOUND", "ECONNRESET", "EPIPE",
     "ER_LOCK_WAIT_TIMEOUT", "ER_LOCK_DEADLOCK", "PROTOCOL_CONNECTION_LOST",
     "PROTOCOL_ENQUEUE_AFTER_FATAL_ERROR"}

\* isRetryableError with six codes only and no test of errno or message
isRetryableError_SixCodes(error) ==
    error.code \in {"ECONNREFUSED", "ETIMEDOUT", "ECONNRESET", "ER_LOCK_WAIT_TIMEOUT",
                    "ER_LOCK_DEADLOCK", "PROTOCOL_CONNECTION_LOST"}

isRetryableError(error) ==
    \/ error.code \in retryableErrorCodes
    \/ error.errno = "ETIMEDOUT"
    \/ Includes(error.message, <<"timeout">>)
    \/ Includes(error.message, <<"Connection", " ", "lost">>)

\* formatDatabaseError: the kind of message the caller gets
formatDatabaseError(error) ==
    CASE error.code = "ER_ACCESS_DENIED_ERROR" -> "Database access denied"
      [] error.code = "ER_BAD_DB_ERROR" -> "Database does not exist"
      [] error.code = "ECONNREFUSED" -> "Connection refused"
      [] error.code = "ETIMEDOUT" \/ error.errno = "ETIMEDOUT" -> "Connection timeout"
      [] error.code = "ER_NO_SUCH_TABLE" -> "Table does not exist"
      [] error.code = "ER_DUP_ENTRY" -> "Duplicate entry"
      [] error.code = "ER_PARSE_ERROR" -> "SQL syntax error"
      [] error.code = "ER_BAD_FIELD_ERROR" -> "Unknown column in query"
      [] error.code = "ER_LOCK_WAIT_TIMEOUT" -> "Lock wait timeout exceeded"
      [] error.code = "ER_LOCK_DEADLOCK" -> "Deadlock detected"
      [] error.code = "PROTOCOL_CONNECTION_LOST" -> "MySQL connection was lost"
      [] error.code = "ENOTFOUND" -> "MySQL host not found"
      [] OTHER -> "Database error"

\* errors after which the server may have done what was asked although the
\* call failed: the reply was lost with the connection
ReplyLost(error) ==
    error.code \in {"ETIMEDOUT", "ECONNRESET", "EPIPE", "PROTOCOL_CONNECTION_LOST"}

-----------------------------------------------------------------------------
(* The DatabaseManager: state *)

NoTxn == [open |-> FALSE, pending |-> <<>>]

IdleProc ==
    [op |-> "idle", pc |-> "idle", cfgRetries |-> 0, n |-> 0,
     attempt |-> 0, idx |-> 0, held |-> {}, lastError |-> NoError,
     outcome |-> "none", thrown |-> "", results |-> <<>>, execs |-> 0,
     slept |-> <<>>, trace |-> <<>>, next |-> ""]

EngineInit ==
    /\ pool = {}
    /\ conn = [c \in Conns |-> NoTxn]
    /\ committed = [s \in StmtTags |-> 0]
    /\ proc = [p \in Procs |-> IdleProc]

\* this.maxRetries = config.maxRetries || 3
maxRetries(p) == IF proc[p].cfgRetries = 0 THEN DefaultMaxRetries ELSE proc[p].cfgRetries

retryDelay == DefaultRetryDelay

\* the database as the server keeps it
Db(cs, cm) == [conn |-> cs, committed |-> cm]

Same == Db(conn, committed)

\* the tag of the i-th statement of the call p is running; committed counts
\* the commits of the statements of the running calls only
Tag(p, i) == <<p, i>>

\* the database when p starts a call: what p sent before is no longer told apart
Forgotten(p) ==
    Db([c \in Conns |-> [conn[c] EXCEPT !.pending = SelectSeq(@, LAMBDA s : s[1] # p)]],
       [s \in StmtTags |-> IF s[1] = p THEN 0 ELSE committed[s]])

\* the database commits each statement of a list once more
Commit(stmts) ==
    [s \in StmtTags |-> committed[s] + Cardinality({i \in DOMAIN stmts : stmts[i] = s})]

\* the server runs statement s on connection c: inside the open transaction
\* of the connection if there is one, else committed at once (autocommit)
Run(c, s) ==
    IF conn[c].open
    THEN Db([conn EXCEPT ![c].pending = Append(@, s)], committed)
    ELSE Db(conn, Commit(<<s>>))

\* BEGIN on c: a transaction still open on c is committed first
Begin(c) == Db([conn EXCEPT ![c] = [open |-> TRUE, pending |-> <<>>]], Commit(conn[c].pending))

\* COMMIT on c
Committed(c) == Db([conn EXCEPT ![c] = NoTxn], Commit(conn[c].pending))

\* ROLLBACK on c, and what is left when the server drops the connection
RolledBack(c) == Db([conn EXCEPT ![c] = NoTxn], committed)

\* what the server may have done when a call on c failed with error e, had it
\* done `done` on success
AfterFailure(e, done) == IF ReplyLost(e) THEN {Same, done} ELSE {Same}

\* the connections the pool can hand out
Free == Conns \ pool

TheConn(p) == CHOOSE c \in proc[p].held : TRUE

Call(name, i, ok) == [call |-> name, i |-> i, ok |-> ok]

\* the call of p ends: it returns, or throws the error named by thrown
Finish(p, outcome, thrown) ==
    [proc[p] EXCEPT !.pc = "done", !.outcome = outcome, !.thrown = thrown, !.held = {}]

RawError == "the driver's error"

Ops == {"query", "transaction", "schemaTransaction", "testConnection", "warmupPool"}

FirstPc(op) == IF op = "query" THEN "execute" ELSE "acquire"

\* a caller that runs no call starts one
Start ==
    \E p \in Procs, op \in Ops, n \in 1..MaxStmts, cfgRetries \in 0..MaxConfigRetries :
        /\ proc[p].pc \in {"idle", "done"}
        /\ op \in {"testConnection", "warmupPool", "query"} => n = 1
        /\ op \in {"testConnection", "warmupPool", "schemaTransaction"} => cfgRetries = 0
        /\ proc' = [proc EXCEPT ![p] =
               [IdleProc EXCEPT !.op = op, !.pc = FirstPc(op), !.n = n,
                                !.cfgRetries = cfgRetries, !.attempt = 1]]
        /\ conn' = Forgotten(p).conn
        /\ committed' = Forgotten(p).committed
        /\ UNCHANGED <<schema, config, call, pool>>

At(p, op, pc) == proc[p].op = op /\ proc[p].pc = pc

-----------------------------------------------------------------------------
(* DatabaseManager.query *)

\* the decision with the test of isRetryableError left out
Retries_AnyError(p, error) == proc[p].attempt < maxRetries(p)

\* the decision of the catch block of query and of transaction
Retries(p, error) == proc[p].attempt < maxRetries(p) /\ isRetryableError(error)

\* pool.execute(sql, params): the pool runs the statement on a free connection
queryExecute ==
    \E p \in Procs :
        /\ At(p, "query", "execute")
        /\ \/ \E c \in Free :
                 /\ conn' = Run(c, Tag(p, 1)).conn
                 /\ committed' = Run(c, Tag(p, 1)).committed
                 /\ proc' = [proc EXCEPT ![p] =
                        [Finish(p, "returned", "") EXCEPT !.execs = @ + 1,
                             !.results = <<1>>, !.trace = Append(@, Call("EXEC", 1, TRUE))]]
           \/ \E e \in DriverErrors, c \in Conns :
              \E d \in AfterFailure(e, Run(c, Tag(p, 1))) :
                 /\ d # Same => c \in Free
                 /\ conn' = d.conn
                 /\ committed' = d.committed
                 /\ proc' = [proc EXCEPT ![p] =
                        [(IF Retries(p, e)
                          THEN [proc[p] EXCEPT !.pc = "sleep"]
                          ELSE Finish(p, "thrown", formatDatabaseError(e)))
                         EXCEPT !.execs = @ + 1, !.lastError = e,
                                !.trace = Append(@, Call("EXEC", 1, FALSE))]]
        /\ UNCHANGED <<schema, config, call, pool>>

\* await this.sleep(this.retryDelay * attempt), then the next attempt; lastError
\* is not read again before the next catch block assigns it, and is forgotten
querySleep ==
    \E p \in Procs :
        /\ At(p, "query", "sleep")
        /\ proc' = [proc EXCEPT ![p].slept = Append(@, retryDelay * proc[p].attempt),
                                ![p].attempt = @ + 1,
                                ![p].lastError = NoError,
                                ![p].pc = "execute"]
        /\ UNCHANGED <<schema, config, call, pool, conn, committed>>

-----------------------------------------------------------------------------
(* DatabaseManager.transaction *)

\* the catch block takes over with the error
Caught(p, name, i, e) ==
    [proc[p] EXCEPT !.pc = "rollback", !.lastError = e,
                    !.trace = Append(@, Call(name, i, FALSE))]

\* an attempt that goes on with the results and the calls of the one before
transactionAcquire_KeepsResults ==
    \E p \in Procs :
        /\ At(p, "transaction", "acquire")
        /\ \/ \E c \in Free :
                 /\ pool' = pool \cup {c}
                 /\ proc' = [proc EXCEPT ![p].held = {c}, ![p].pc = "begin"]
           \/ \E e \in DriverErrors :
                 /\ pool' = pool
                 /\ proc' = [proc EXCEPT ![p] =
                        [Finish(p, "thrown", RawError) EXCEPT !.lastError = e]]
        /\ UNCHANGED <<schema, config, call, conn, committed>>

\* const connection = await this.pool.getConnection(), outside the try block
transactionAcquire ==
    \E p \in Procs :
        /\ At(p, "transaction", "acquire")
        /\ \/ \E c \in Free :
                 /\ pool' = pool \cup {c}
                 /\ proc' = [proc EXCEPT ![p].held = {c}, ![p].pc = "begin",
                                         ![p].trace = <<>>, ![p].results = <<>>]
           \/ \E e \in DriverErrors :
                 /\ pool' = pool
                 /\ proc' = [proc EXCEPT ![p] =
                        [Finish(p, "thrown", RawError) EXCEPT !.lastError = e]]
        /\ UNCHANGED <<schema, config, call, conn, committed>>

\* await connection.beginTransaction()
transactionBegin ==
    \E p \in Procs :
        /\ At(p, "transaction", "begin")
        /\ \/ /\ conn' = Begin(TheConn(p)).conn
              /\ committed' = Begin(TheConn(p)).committed
              /\ proc' = [proc EXCEPT ![p].idx = 1,
                              ![p].pc = IF proc[p].n = 0 THEN "commit" ELSE "execute",
                              ![p].trace = Append(@, Call("BEGIN", 0, TRUE))]
           \/ \E e \in DriverErrors :
                 /\ UNCHANGED <<conn, committed>>
                 /\ proc' = [proc EXCEPT ![p] = Caught(p, "BEGIN", 0, e)]
        /\ UNCHANGED <<schema, config, call, pool>>

\* await connection.execute(sql, params); results.push(result)
transactionExecute ==
    \E p \in Procs :
        /\ At(p, "transaction", "execute")
        /\ \/ /\ conn' = Run(TheConn(p), Tag(p, proc[p].idx)).conn
              /\ committed' = Run(TheConn(p), Tag(p, proc[p].idx)).committed
              /\ proc' = [proc EXCEPT ![p].idx = @ + 1,
                              ![p].execs = @ + 1,
                              ![p].results = Append(@, proc[p].idx),
                              ![p].pc = IF proc[p].idx = proc[p].n THEN "commit" ELSE "execute",
                              ![p].trace = Append(@, Call("EXEC", proc[p].idx, TRUE))]
           \/ \E e \in DriverErrors :
                 /\ UNCHANGED <<conn, committed>>
                 /\ proc' = [proc EXCEPT ![p] =
                        [Caught(p, "EXEC", proc[p].idx, e) EXCEPT !.execs = @ + 1]]
        /\ UNCHANGED <<schema, config, call, pool>>

\* await connection.commit()
transactionCommit ==
    \E p \in Procs :
        /\ At(p, "transaction", "commit")
        /\ \/ /\ conn' = Committed(TheConn(p)).conn
              /\ committed' = Committed(TheConn(p)).committed
              /\ proc' = [proc EXCEPT ![p].pc = "release", ![p].next = "return",
                              ![p].trace = Append(@, Call("COMMIT", 0, TRUE))]
           \/ \E e \in DriverErrors :
              \E d \in AfterFailure(e, Committed(TheConn(p))) :
                 /\ conn' = d.conn
                 /\ committed' = d.committed
                 /\ proc' = [proc EXCEPT ![p] = Caught(p, "COMMIT", 0, e)]
        /\ UNCHANGED <<schema, config, call, pool>>

\* the catch block: rollback, its own failure only logged, then the decision
\* to retry
transactionRollback ==
    \E p \in Procs :
        /\ At(p, "transaction", "rollback")
        /\ \E ok \in BOOLEAN :
           \E d \in IF ok THEN {RolledBack(TheConn(p))} ELSE {Same, RolledBack(TheConn(p))} :
              /\ conn' = d.conn
              /\ committed' = d.committed
              /\ proc' = [proc EXCEPT
                     ![p].trace = Append(@, Call("ROLLBACK", 0, ok)),
                     ![p].pc = IF Retries(p, proc[p].lastError) THEN "sleep" ELSE "release",
                     ![p].next = IF Retries(p, proc[p].lastError) THEN "retry" ELSE "throw"]
        /\ UNCHANGED <<schema, config, call, pool>>

\* await this.sleep(this.retryDelay * attempt), still inside the catch block
transactionSleep ==
    \E p \in Procs :
        /\ At(p, "transaction", "sleep")
        /\ proc' = [proc EXCEPT ![p].slept = Append(@, retryDelay * proc[p].attempt),
                                ![p].pc = "release"]
        /\ UNCHANGED <<schema, config, call, pool, conn, committed>>

\* the finally block: connection.release(), then what the try or catch block
\* decided
transactionRelease ==
    \E p \in Procs :
        /\ At(p, "transaction", "release")
        /\ pool' = pool \ proc[p].held
        /\ proc' = [proc EXCEPT ![p] =
               CASE proc[p].next = "return" -> Finish(p, "returned", "")
                 [] proc[p].next = "retry" ->
                        [proc[p] EXCEPT !.held = {}, !.attempt = @ + 1, !.pc = "acquire",
                                        !.lastError = NoError, !.next = ""]
                 [] OTHER -> Finish(p, "thrown", formatDatabaseError(proc[p].lastError))]
        /\ UNCHANGED <<schema, config, call, conn, committed>>

-----------------------------------------------------------------------------
(* DatabaseManager.schemaTransaction *)

schemaTransactionAcquire ==
    \E p \in Procs :
        /\ At(p, "schemaTransaction", "acquire")
        /\ \/ \E c \in Free :
                 /\ pool' = pool \cup {c}
                 /\ proc' = [proc EXCEPT ![p].held = {c}, ![p].pc = "begin"]
           \/ \E e \in DriverErrors :
                 /\ pool' = pool
                 /\ proc' = [proc EXCEPT ![p] =
                        [Finish(p, "thrown", RawError) EXCEPT !.lastError = e]]
        /\ UNCHANGED <<schema, config, call, conn, committed>>

schemaTransactionBegin ==
    \E p \in Procs :
        /\ At(p, "schemaTransaction", "begin")
        /\ \/ /\ conn' = Begin(TheConn(p)).conn
              /\ committed' = Begin(TheConn(p)).committed
              /\ proc' = [proc EXCEPT ![p].idx = 1,
                              ![p].pc = IF proc[p].n = 0 THEN "commit" ELSE "execute",
                              ![p].trace = Append(@, Call("BEGIN", 0, TRUE))]
           \/ \E e \in DriverErrors :
                 /\ UNCHANGED <<conn, committed>>
                 /\ proc' = [proc EXCEPT ![p] = Caught(p, "BEGIN", 0, e)]
        /\ UNCHANGED <<schema, config, call, pool>>

schemaTransactionExecute ==
    \E p \in Procs :
        /\ At(p, "schemaTransaction", "execute")
        /\ \/ /\ conn' = Run(TheConn(p), Tag(p, proc[p].idx)).conn
              /\ committed' = Run(TheConn(p), Tag(p, proc[p].idx)).committed
              /\ proc' = [proc EXCEPT ![p].idx = @ + 1,
                              ![p].execs = @ + 1,
                              ![p].results = Append(@, proc[p].idx),
                              ![p].pc = IF proc[p].idx = proc[p].n THEN "commit" ELSE "execute",
                              ![p].trace = Append(@, Call("EXEC", proc[p].idx, TRUE))]
           \/ \E e \in DriverErrors :
                 /\ UNCHANGED <<conn, committed>>
                 /\ proc' = [proc EXCEPT ![p] =
                        [Caught(p, "EXEC", proc[p].idx, e) EXCEPT !.execs = @ + 1]]
        /\ UNCHANGED <<schema, config, call, pool>>

schemaTransactionCommit ==
    \E p \in Procs :
        /\ At(p, "schemaTransaction", "commit")
        /\ \/ /\ conn' = Committed(TheConn(p)).conn
              /\ committed' = Committed(TheConn(p)).committed
              /\ proc' = [proc EXCEPT ![p].pc = "release", ![p].next = "return",
                              ![p].trace = Append(@, Call("COMMIT", 0, TRUE))]
           \/ \E e \in DriverErrors :
              \E d \in AfterFailure(e, Committed(TheConn(p))) :
                 /\ conn' = d.conn
                 /\ committed' = d.committed
                 /\ proc' = [proc EXCEPT ![p] = Caught(p, "COMMIT", 0, e)]
        /\ UNCHANGED <<schema, config, call, pool>>

\* the catch block: a failing rollback throws its own error past the throw of
\* the formatted one
schemaTransactionRollback ==
    \E p \in Procs :
        /\ At(p, "schemaTransaction", "rollback")
        /\ \E ok \in BOOLEAN :
           \E d \in IF ok THEN {RolledBack(TheConn(p))} ELSE {Same, RolledBack(TheConn(p))} :
              /\ conn' = d.conn
              /\ committed' = d.committed
              /\ proc' = [proc EXCEPT
                     ![p].trace = Append(@, Call("ROLLBACK", 0, ok)),
                     ![p].pc = "release",
                     ![p].next = IF ok THEN "throw" ELSE "throw raw"]
        /\ UNCHANGED <<schema, config, call, pool>>

schemaTransactionRelease ==
    \E p \in Procs :
        /\ At(p, "schemaTransaction", "release")
        /\ pool' = pool \ proc[p].held
        /\ proc' = [proc EXCEPT ![p] =
               CASE proc[p].next = "return" -> Finish(p, "returned", "")
                 [] proc[p].next = "throw raw" -> Finish(p, "thrown", RawError)
                 [] OTHER -> Finish(p, "thrown", formatDatabaseError(proc[p].lastError))]
        /\ UNCHANGED <<schema, config, call, conn, committed>>

-----------------------------------------------------------------------------
(* DatabaseManager.testConnection and warmupPool *)

\* the catch block of testConnection: sleep(1000 * attempt) before the next
\* attempt, false after the last
TestFailed(p, e) ==
    IF proc[p].attempt < TestAttempts
    THEN [proc[p] EXCEPT !.pc = "acquire", !.attempt = @ + 1,
                         !.slept = Append(@, TestDelay * proc[p].attempt), !.held = {}]
    ELSE [Finish(p, "returned", "") EXCEPT !.lastError = e, !.results = <<FALSE>>]

testConnectionAcquire ==
    \E p \in Procs :
        /\ At(p, "testConnection", "acquire")
        /\ \/ \E c \in Free :
                 /\ pool' = pool \cup {c}
                 /\ proc' = [proc EXCEPT ![p].held = {c}, ![p].pc = "ping"]
           \/ \E e \in DriverErrors :
                 /\ pool' = pool
                 /\ proc' = [proc EXCEPT ![p] = TestFailed(p, e)]
        /\ UNCHANGED <<schema, config, call, conn, committed>>

\* await connection.ping(); connection.release(); return true: a failing ping
\* goes to the catch block, which does not release
testConnectionPing ==
    \E p \in Procs :
        /\ At(p, "testConnection", "ping")
        /\ \/ /\ pool' = pool \ proc[p].held
              /\ proc' = [proc EXCEPT ![p] =
                     [Finish(p, "returned", "") EXCEPT !.results = <<TRUE>>]]
           \/ \E e \in DriverErrors :
                 /\ pool' = pool
                 /\ proc' = [proc EXCEPT ![p] = TestFailed(p, e)]
        /\ UNCHANGED <<schema, config, call, conn, committed>>

warmupCount == IF WarmupMax < connectionLimit THEN WarmupMax ELSE connectionLimit

warmupPoolAcquire ==
    \E p \in Procs :
        /\ At(p, "warmupPool", "acquire")
        /\ \/ /\ proc[p].idx < warmupCount
              /\ \E c \in Free :
                    /\ pool' = pool \cup {c}
                    /\ proc' = [proc EXCEPT ![p].held = @ \cup {c}, ![p].idx = @ + 1]
           \/ /\ proc[p].idx < warmupCount
              /\ \E e \in DriverErrors :
                    /\ pool' = pool
                    /\ proc' = [proc EXCEPT ![p].lastError = e, ![p].pc = "release"]
           \/ /\ proc[p].idx = warmupCount
              /\ pool' = pool
              /\ proc' = [proc EXCEPT ![p].pc = "release"]
        /\ UNCHANGED <<schema, config, call, conn, committed>>

\* finally: connections.forEach((conn) => conn.release())
warmupPoolRelease ==
    \E p \in Procs :
        /\ At(p, "warmupPool", "release")
        /\ pool' = pool \ proc[p].held
        /\ proc' = [proc EXCEPT ![p] = Finish(p, "returned", "")]
        /\ UNCHANGED <<schema, config, call, conn, committed>>

NextEngine ==
    \/ Start
    \/ queryExecute
    \/ querySleep
    \/ transactionAcquire
    \/ transactionBegin
    \/ transactionExecute
    \/ transactionCommit
    \/ transactionRollback
    \/ transactionSleep
    \/ transactionRelease
    \/ schemaTransactionAcquire
    \/ schemaTransactionBegin
    \/ schemaTransactionExecute
    \/ schemaTransactionCommit
    \/ schemaTransactionRollback
    \/ schemaTransactionRelease
    \/ testConnectionAcquire
    \/ testConnectionPing
    \/ warmupPoolAcquire
    \/ warmupPoolRelease

-----------------------------------------------------------------------------
(* Specification of the tool handlers *)

\* the kinds of schema object the four checked schema operations name
Kinds == {"column", "table", "index"}

\* the database before any request: one object of each kind
InitialSchema == [k \in Kinds |-> {"x"}]

\* no request yet
NoCall ==
    [tool |-> "none", args |-> <<>>, res |-> Res(TRUE, "", <<>>),
     response |-> [isError |-> FALSE, content |-> "none"]]

\* the ListTools request handler
ListTools ==
    /\ Idle
    /\ call' = [tool |-> "tools/list", args |-> <<>>, res |-> Res(TRUE, "", <<>>),
                response |-> [isError |-> FALSE, content |-> getEnabledTools]]
    /\ UNCHANGED <<schema, config, engineVars>>

\* MySQLMCPImplementation does not override handleDescribeTable
handleDescribeTable ==
    /\ Idle
    /\ \E t \in TableNames :
           call' = Called("describe_table", [table |-> t],
                          Fail("handleDescribeTable not implemented"))
    /\ UNCHANGED <<schema, config, engineVars>>

\* MySQLMCPImplementation does not override handleShowTableData
handleShowTableData ==
    /\ Idle
    /\ \E t \in TableNames :
           call' = Called("show_table_data", [table |-> t],
                          Fail("handleShowTableData not implemented"))
    /\ UNCHANGED <<schema, config, engineVars>>

UnknownNames == {"drop_database", "READ"}

\* the default case of executeTool
executeToolDefault ==
    /\ Idle
    /\ \E name \in UnknownNames :
           call' = Called(name, <<>>, Fail("Unknown tool"))
    /\ UNCHANGED <<schema, config, engineVars>>

Init ==
    /\ call = NoCall
    /\ config \in Configs
    /\ schema = InitialSchema
    /\ EngineInit

InitEngine ==
    /\ call = NoCall
    /\ config = EveryTool
    /\ schema = InitialSchema
    /\ EngineInit

Next ==
    \/ ListTools
    \/ handleDescribeTable
    \/ handleShowTableData
    \/ executeToolDefault
    \/ handleRead
    \/ handleCreate
    \/ handleUpdate
    \/ handleDelete
    \/ handleExecute
    \/ handleDDL
    \/ handleTransaction
    \/ handleBulkInsert
    \/ handleAddColumn
    \/ handleDropColumn
    \/ handleModifyColumn
    \/ handleRenameColumn
    \/ handleRenameTable
    \/ handleAddIndex
    \/ handleDropIndex

Spec == Init /\ [][Next]_vars

SpecEngine == InitEngine /\ [][NextEngine]_vars

-----------------------------------------------------------------------------
(* The statements of one invocation on the connections of the pool *)

\* a pool that holds more than one idle connection, as warmupPool leaves it
PoolConns == 1..(MaxConns + 1)

InitPool ==
    /\ call = NoCall
    /\ config = EveryTool
    /\ schema = InitialSchema
    /\ pool = {}
    /\ conn = [c \in PoolConns |-> NoTxn]
    /\ committed = [s \in StmtTags |-> 0]
    /\ proc = [p \in Procs |-> IdleProc]

\* the driver ran the i-th statement of the invocation on connection c
CallOn(i, ok, c) == [call |-> "EXEC", i |-> i, ok |-> ok, on |-> c]

\* the statement the invocation sends next; call.res.sent lists, in the order
\* of the awaits, the statements the handler hands to the DatabaseManager
NextStmt(p) == call.res.sent[proc[p].idx + 1]

\* the last statement sent is the one that failed when the database did
Answered(i) == ~(i = Len(call.res.sent) /\ call.res.err = "Database error")

\* await this.dbManager.query(sql, params): pool.execute takes a free
\* connection of the pool, runs the statement on it and releases it
dbManagerQuery ==
    \E p \in Procs :
        /\ proc[p].idx < Len(call.res.sent)
        /\ NextStmt(p).via = "query"
        /\ \E c \in DOMAIN conn \ pool :
              proc' = [proc EXCEPT ![p].op = "query",
                                   ![p].idx = @ + 1,
                                   ![p].execs = @ + 1,
                                   ![p].trace = Append(@, CallOn(proc[p].idx + 1,
                                                                 Answered(proc[p].idx + 1), c))]
        /\ UNCHANGED <<schema, config, call, pool, conn, committed>>

\* await this.dbManager.transaction(queries): one connection is acquired for
\* the attempt, every statement of the list runs on it, then it is released
dbManagerTransaction ==
    \E p \in Procs :
        /\ proc[p].idx < Len(call.res.sent)
        /\ NextStmt(p).via = "transaction"
        /\ \E c \in IF proc[p].idx = 0 THEN DOMAIN conn \ pool ELSE proc[p].held :
              /\ proc' = [proc EXCEPT ![p].op = "transaction",
                                      ![p].idx = @ + 1,
                                      ![p].execs = @ + 1,
                                      ![p].held = IF proc[p].idx + 1 = Len(call.res.sent)
                                                  THEN {} ELSE {c},
                                      ![p].trace = Append(@, CallOn(proc[p].idx + 1,
                                                                    Answered(proc[p].idx + 1), c))]
              /\ pool' = IF proc[p].idx + 1 = Len(call.res.sent) THEN pool \ {c}
                         ELSE pool \cup {c}
        /\ UNCHANGED <<schema, config, call, conn, committed>>

NextPool ==
    \/ handleDropColumn
    \/ handleRenameColumn
    \/ handleRenameTable
    \/ handleDropIndex
    \/ handleTransaction
    \/ dbManagerQuery
    \/ dbManagerTransaction

SpecPool == InitPool /\ [][NextPool]_vars

-----------------------------------------------------------------------------
(* The checked schema operations of concurrent requests *)

\* the requests in flight at the same time
MaxCallers == 2

Callers == 1..MaxCallers

\* the names the requests use for columns, tables and indexes
Names == {"x", "y"}

\* the four handlers that ask INFORMATION_SCHEMA before they alter
CheckedTools == {"drop_column", "rename_column", "rename_table", "drop_index"}

Renames == {"rename_column", "rename_table"}

KindOf(tool) ==
    CASE tool = "rename_table" -> "table"
      [] tool = "drop_index" -> "index"
      [] OTHER -> "column"

\* a request that has not arrived
NoRequest ==
    [tool |-> "none", target |-> "", newName |-> "", pc |-> "idle",
     sent |-> FALSE, valid |-> FALSE, err |-> ""]

InitSchema ==
    /\ call = NoCall
    /\ config = EveryTool
    /\ schema = InitialSchema
    /\ pool = {}
    /\ conn = [c \in Conns |-> NoTxn]
    /\ committed = [s \in StmtTags |-> 0]
    /\ proc = [p \in Callers |-> NoRequest]

\* the request of p is at the await named pc
Awaits(p, pc) == proc[p].tool \in CheckedTools /\ proc[p].pc = pc

\* the mutating statement finds its target and, for a rename, its new name free
Applicable(r) ==
    /\ r.target \in schema[KindOf(r.tool)]
    /\ r.tool \in Renames => r.newName \notin schema[KindOf(r.tool)]

\* the schema after the mutating statement of r took effect
Altered(r) ==
    [schema EXCEPT ![KindOf(r.tool)] =
        IF r.tool \in Renames THEN (@ \ {r.target}) \cup {r.newName} ELSE @ \ {r.target}]

\* a CallTool request for one of the four tools arrives; its names passed the
\* validation of the handler
schemaRequest ==
    \E p \in Callers, tool \in CheckedTools, target \in Names, newName \in Names :
        /\ proc[p].pc = "idle"
        /\ tool \in Renames => newName # target
        /\ tool \notin Renames => newName = target
        /\ proc' = [proc EXCEPT ![p] =
               [NoRequest EXCEPT !.tool = tool, !.target = target,
                                 !.newName = IF tool \in Renames THEN newName ELSE "",
                                 !.pc = "checkTarget"]]
        /\ UNCHANGED <<schema, config, call, pool, conn, committed>>

\* the first await: does the column, table or index exist
checkTargetExists ==
    \E p \in Callers :
        /\ Awaits(p, "checkTarget")
        /\ proc' = [proc EXCEPT ![p] =
               IF proc[p].target \notin schema[KindOf(proc[p].tool)]
               THEN [@ EXCEPT !.pc = "done", !.err = "does not exist"]
               ELSE [@ EXCEPT !.pc = IF proc[p].tool \in Renames THEN "checkNewName"
                                     ELSE "alter"]]
        /\ UNCHANGED <<schema, config, call, pool, conn, committed>>

\* the second await of the renames: is the new name taken
checkNewNameFree ==
    \E p \in Callers :
        /\ Awaits(p, "checkNewName")
        /\ proc' = [proc EXCEPT ![p] =
               IF proc[p].newName \in schema[KindOf(proc[p].tool)]
               THEN [@ EXCEPT !.pc = "done", !.err = "already exists"]
               ELSE [@ EXCEPT !.pc = "alter"]]
        /\ UNCHANGED <<schema, config, call, pool, conn, committed>>

\* the last await: the ALTER TABLE, RENAME TABLE or DROP INDEX statement; the
\* database applies it when it is applicable and answers with an error if not
sendMutatingStatement ==
    \E p \in Callers :
        /\ Awaits(p, "alter")
        /\ proc' = [proc EXCEPT ![p] =
               [@ EXCEPT !.pc = "done", !.sent = TRUE, !.valid = Applicable(proc[p]),
                         !.err = IF Applicable(proc[p]) THEN "" ELSE "Database error"]]
        /\ schema' = IF Applicable(proc[p]) THEN Altered(proc[p]) ELSE schema
        /\ UNCHANGED <<config, call, pool, conn, committed>>

NextSchema ==
    \/ schemaRequest
    \/ checkTargetExists
    \/ checkNewNameFree
    \/ sendMutatingStatement

SpecSchema == InitSchema /\ [][NextSchema]_vars

-----------------------------------------------------------------------------
(* Properties of the tool handlers *)

\* the statements the last invocation handed to the DatabaseManager
Sent == call.res.sent

\* a where argument that is absent or an empty map
NoWhere(where) == ~where.present \/ where.entries = <<>>

\* the steps of the last invocation, when it was a transaction
StepsOf(c) == IF c.tool = "transaction" THEN Range(c.args.operations) ELSE {}

IsUpdateOrDelete(stmt) == stmt.sql[1] \in {Lit("UPDATE "), Lit("DELETE FROM ")}

HasWhereClause(stmt) == \E i \in DOMAIN stmt.sql : stmt.sql[i] = Lit("WHERE ")

\* C1: an Update or a Delete, standalone or as a step of a Transaction, whose
\* where is absent or an empty map fails and sends no statement; hence no
\* UPDATE or DELETE statement without a WHERE clause is ever sent.
C1_WhereRequired ==
    /\ (call.tool \in {"update", "delete"} /\ NoWhere(call.args.where))
           => (~call.res.ok /\ Sent = <<>>)
    /\ (\E op \in StepsOf(call) : op.type \in {"update", "delete"} /\ NoWhere(op.where))
           => (~call.res.ok /\ Sent = <<>>)
    /\ \A i \in DOMAIN Sent : IsUpdateOrDelete(Sent[i]) => HasWhereClause(Sent[i])


\* a name made only of ASCII letters, digits and underscore, and not empty
IsValidIdentifier(name) ==
    name # <<>> /\ \A i \in DOMAIN name : IsIdentChar(name[i])

KeysOf(m) == IF m.present THEN Range(Keys(m)) ELSE {}

\* the names a data operation (a tool call or a transaction step) supplies
DataIdentifiers(type, a) ==
    CASE type = "read" -> {a.table} \cup Range(a.columns) \cup KeysOf(a.where)
      [] type = "create" -> {a.table} \cup KeysOf(a.data)
      [] type = "update" -> {a.table} \cup KeysOf(a.data) \cup KeysOf(a.where)
      [] type = "delete" -> {a.table} \cup KeysOf(a.where)
      [] OTHER -> {}

BulkIdentifiers(table, records) ==
    {table} \cup UNION {KeysOf(records[i]) : i \in DOMAIN records}

\* an optional name, when it was given
Given(name) == IF name = <<>> THEN {} ELSE {name}

\* the table, column and index names the caller supplied to an invocation
CallerIdentifiers(c) ==
    CASE c.tool \in {"read", "create", "update", "delete"} -> DataIdentifiers(c.tool, c.args)
      [] c.tool = "bulk_insert" -> BulkIdentifiers(c.args.table, c.args.data)
      [] c.tool = "transaction" ->
           UNION {IF op.type = "bulk_insert" THEN BulkIdentifiers(op.table, op.records)
                  ELSE DataIdentifiers(op.type, op) : op \in StepsOf(c)}
      [] c.tool = "add_column" ->
           {c.args.table} \cup (IF c.args.column.present THEN {c.args.column.name} ELSE {})
           \cup (IF c.args.position.present THEN Given(c.args.position.after) ELSE {})
      [] c.tool = "drop_column" -> {c.args.table, c.args.column}
      [] c.tool = "modify_column" ->
           {c.args.table, c.args.column} \cup Given(c.args.newDefinition.name)
      [] c.tool = "rename_column" -> {c.args.table, c.args.oldName, c.args.newName}
      [] c.tool = "rename_table" -> {c.args.oldName, c.args.newName}
      [] c.tool = "add_index" -> {c.args.table, c.args.name} \cup Range(c.args.columns)
      [] c.tool = "drop_index" -> {c.args.table, c.args.name}
      [] OTHER -> {}

\* a limit that was supplied and is not an integer in 1..10000
BadLimit(limit) ==
    limit.t # "absent" /\ ~(limit.t = "num" /\ ~limit.extra /\ limit.n \in 1..MaxLimit)

\* a where map with a string value that matches an injection pattern
HasInjection(where) ==
    \E i \in DOMAIN where.entries :
        where.entries[i].val.t = "str" /\ IsDangerousValue(where.entries[i].val.v)

\* the invocation breaks a rule that compilation enforces
ViolatesCompileRule(c) ==
    \/ \E name \in CallerIdentifiers(c) : ~IsValidIdentifier(name)
    \/ c.tool \in {"update", "delete"} /\ NoWhere(c.args.where)
    \/ c.tool = "read" /\ BadLimit(c.args.limit)
    \/ c.tool \in {"read", "update", "delete"} /\ HasInjection(c.args.where)
    \/ \E op \in StepsOf(c) :
           \/ op.type \in {"update", "delete"} /\ (NoWhere(op.where) \/ HasInjection(op.where))
           \/ op.type \notin {"create", "bulk_insert", "update", "delete", "execute"}

\* C6: an operation that violates a compile-time rule sends no statement (and
\* so acquires no connection); a Transaction with a step that fails
\* compilation executes none of its steps.
C6_CompileFailureSendsNothing ==
    ViolatesCompileRule(call) => (~call.res.ok /\ Sent = <<>>)

\* the raw SQL of a statement: the text of its interpolated query, if it has one
RawSql(stmt) == {p.v : p \in {q \in Range(stmt.sql) : q.k = "txt" /\ q.src = "query"}}

\* the allowWrite flag that goes with the i-th statement sent
AllowWriteOf(c, i) ==
    IF c.tool = "transaction" THEN c.args.operations[i].allowWrite ELSE c.args.allowWrite

\* C7: every caller-supplied raw SQL string that is sent, by a standalone
\* Execute or by an execute step of a Transaction, has passed the Execute gate.
C7_RawSqlGated ==
    call.tool \in {"execute", "transaction"} =>
        \A i \in DOMAIN Sent :
            \A q \in RawSql(Sent[i]) : ExecuteGate(q, AllowWriteOf(call, i)) = ""

ParameterizedTools ==
    {"read", "create", "update", "delete", "bulk_insert", "add_column", "modify_column",
     "rename_column", "rename_table", "add_index", "drop_index", "drop_column"}

\* the arguments that hold caller values and free-form text
ValueSources == {"default", "comment", "newDefinition"}

\* C8: in every statement generated for Read, Create, Update, Delete,
\* BulkInsert and the schema operations, caller-supplied values and free-form
\* text never appear in the SQL text.
C8_ValuesNeverInSqlText ==
    call.tool \in ParameterizedTools =>
        \A i \in DOMAIN Sent :
            \A p \in Range(Sent[i].sql) : ~(p.k = "txt" /\ p.src \in ValueSources)

\* C9: an invocation that sends a statement supplied only valid identifiers,
\* and every identifier embedded in SQL text is one the caller supplied,
\* unaltered.
C9_IdentifiersFailClosed ==
    Sent # <<>> =>
        /\ \A name \in CallerIdentifiers(call) : IsValidIdentifier(name)
        /\ \A i \in DOMAIN Sent :
               \A p \in Range(Sent[i].sql) : p.k = "id" => p.v \in CallerIdentifiers(call)

SchemaTools ==
    {"add_column", "drop_column", "modify_column", "rename_column", "rename_table",
     "add_index", "drop_index"}

\* the table a schema operation modifies
TargetTable(c) == IF c.tool = "rename_table" THEN c.args.oldName ELSE c.args.table

\* C10: a schema operation whose target table is, case-insensitively, a
\* system schema name fails before any statement is sent.
C10_SystemTablesProtected ==
    (call.tool \in SchemaTools /\ toLowerCase(TargetTable(call)) \in systemTables)
        => (~call.res.ok /\ Sent = <<>>)

\* a schema operation on a system table spelled in mixed case was rejected
C10_Witness ==
    /\ call.tool = "rename_table"
    /\ call.args.oldName = <<"M","y","S","Q","L">>
    /\ call.args.newName = t1
    /\ ~call.res.ok

-----------------------------------------------------------------------------
(* Properties of the DatabaseManager *)

Running(op) == {p \in Procs : proc[p].op = op}

Ended(op) == {p \in Running(op) : proc[p].pc = "done"}

Quiet == \A p \in Procs : proc[p].pc \in {"idle", "done"}

\* how often each statement of the list of p is committed
Commits(p) == {committed[Tag(p, i)] : i \in 1..proc[p].n}

\* the calls an attempt makes on its connection when nothing fails
FullAttempt(n) ==
    <<"BEGIN">> \o [i \in 1..n |-> "EXEC"] \o <<"COMMIT">>

\* the trace is an attempt in the order BEGIN, statements, COMMIT, cut short by
\* the first failure, which only ROLLBACK follows
InOrder(trace, n) ==
    LET body == SelectSeq(trace, LAMBDA c : c.call # "ROLLBACK")
    IN  /\ Len(body) <= n + 2
        /\ \A k \in DOMAIN body :
              /\ body[k].call = FullAttempt(n)[k]
              /\ body[k].call = "EXEC" => body[k].i = k - 1
              /\ k < Len(body) => body[k].ok
        /\ \A k \in DOMAIN trace :
              trace[k].call = "ROLLBACK" =>
                  /\ k = Len(trace)
                  /\ k > 1
                  /\ ~trace[k - 1].ok

\* C2: transaction is all-or-nothing: each attempt issues BEGIN, the statements
\* in list order, then COMMIT, a failure is followed by ROLLBACK and nothing
\* else, results are returned only after a successful COMMIT, and when the call
\* has ended either every statement of the list is committed exactly once or
\* none is committed
C2_AllOrNothing ==
    /\ \A p \in Running("transaction") : InOrder(proc[p].trace, proc[p].n)
    /\ \A p \in Ended("transaction") :
          /\ proc[p].outcome = "returned" =>
                 /\ proc[p].trace # <<>>
                 /\ proc[p].trace[Len(proc[p].trace)] = Call("COMMIT", 0, TRUE)
                 /\ Commits(p) = {1}
          /\ Commits(p) \in {{0}, {1}}

\* C3: when no engine call is running no connection is checked out
C3_ConnectionsReleased == Quiet => pool = {}

\* C4: query makes attempt after attempt only past retryable failures: before
\* attempt k there are k - 1 failed executions, a backoff follows only a
\* retryable failure with attempts left, an error is thrown after exactly
\* maxRetries executions when the last error is retryable, and a success ends
\* the call with its rows
C4_QueryAttempts ==
    \A p \in Running("query") :
        LET q == proc[p]
        IN  /\ q.pc = "execute" => q.execs = q.attempt - 1 /\ q.attempt <= maxRetries(p)
            /\ q.pc = "sleep" =>
                   /\ q.execs = q.attempt
                   /\ q.attempt < maxRetries(p)
                   /\ isRetryableError(q.lastError)
            /\ q.pc = "done" => q.execs = q.attempt /\ q.execs <= maxRetries(p)
            /\ q.pc = "done" /\ q.outcome = "thrown" =>
                   /\ isRetryableError(q.lastError) => q.execs = maxRetries(p)
                   /\ \A k \in DOMAIN q.trace : ~q.trace[k].ok
            /\ q.pc = "done" /\ q.outcome = "returned" => q.results = <<1>>
            /\ Len(q.trace) = q.execs
            /\ \A k \in DOMAIN q.trace :
                   q.trace[k].ok => k = Len(q.trace) /\ q.pc = "done" /\ q.outcome = "returned"

C4_Witness ==
    \E p \in Ended("query") :
        /\ proc[p].outcome = "thrown"
        /\ proc[p].execs = maxRetries(p)
        /\ proc[p].execs = DefaultMaxRetries
        /\ isRetryableError(proc[p].lastError)

\* the calls about to make another attempt after a failure
Retrying ==
    {p \in Procs : \/ proc[p].op = "query" /\ proc[p].pc = "sleep"
                   \/ proc[p].op = "transaction" /\ proc[p].pc \in {"sleep", "release"}
                         /\ proc[p].next = "retry"}

\* the calls that gave up with the translation of a failure
GaveUp ==
    {p \in Procs : /\ proc[p].op \in {"query", "transaction"}
                   /\ \/ proc[p].pc = "done" /\ proc[p].outcome = "thrown"
                         /\ proc[p].thrown # RawError
                      \/ proc[p].pc = "release" /\ proc[p].next = "throw"}

\* the six classes: connection refused, timeout, connection reset, lock wait
\* timeout, deadlock, connection lost
SixClasses(e) ==
    \/ e.code \in {"ECONNREFUSED", "ETIMEDOUT", "ECONNRESET", "ER_LOCK_WAIT_TIMEOUT",
                   "ER_LOCK_DEADLOCK", "PROTOCOL_CONNECTION_LOST"}
    \/ e.errno = "ETIMEDOUT"
    \/ e.code = "" /\ Includes(e.message, <<"timeout">>)

\* C5 as stated: a failure is retried only when the error is of one of the six
\* classes
C5_OnlySixClassesRetried == \A p \in Retrying : SixClasses(proc[p].lastError)

\* the errors the code takes for retryable
NineCodes(e) ==
    \/ e.code \in {"ECONNREFUSED", "ETIMEDOUT", "ENOTFOUND", "ECONNRESET", "EPIPE",
                   "ER_LOCK_WAIT_TIMEOUT", "ER_LOCK_DEADLOCK", "PROTOCOL_CONNECTION_LOST",
                   "PROTOCOL_ENQUEUE_AFTER_FATAL_ERROR"}
    \/ e.errno = "ETIMEDOUT"
    \/ \E k \in DOMAIN e.message : e.message[k] = "timeout"
    \/ \E k \in 1..(Len(e.message) - 2) :
          e.message[k] = "Connection" /\ e.message[k + 1] = " " /\ e.message[k + 2] = "lost"

\* C5 amended: a failure in query or transaction is retried exactly when attempts
\* remain and the error has one of nine codes (the six classes and ENOTFOUND,
\* EPIPE, PROTOCOL_ENQUEUE_AFTER_FATAL_ERROR), the errno ETIMEDOUT, or a message
\* containing timeout or Connection lost; any other error ends the call at once
C5_RetriedByCodeErrnoOrMessage ==
    /\ \A p \in Retrying :
          NineCodes(proc[p].lastError) /\ proc[p].attempt < maxRetries(p)
    /\ \A p \in GaveUp :
          ~NineCodes(proc[p].lastError) \/ proc[p].attempt = maxRetries(p)

C5_Witness ==
    \E p \in Retrying :
        /\ proc[p].lastError.code \in {"EPIPE", "ENOTFOUND"}
        /\ proc[p].attempt = 1

-----------------------------------------------------------------------------
(* Properties of multi-statement operations *)

\* C11: the statements of one multi-statement operation (the steps of a
\* Transaction; the pre-checks and the mutating statement of RenameColumn,
\* RenameTable, DropColumn and DropIndex) run in compiled order on one and
\* the same connection of the pool
C11_OneConnectionInOrder ==
    \A p \in Procs :
        /\ \A k \in DOMAIN proc[p].trace : proc[p].trace[k].i = k
        /\ \A j, k \in DOMAIN proc[p].trace : proc[p].trace[j].on = proc[p].trace[k].on

\* the statement changes the schema: ALTER TABLE or RENAME TABLE
IsMutating(stmt) == stmt.sql[1] \in {Lit("ALTER TABLE "), Lit("RENAME TABLE ")}

NoMutatingSent == \A i \in DOMAIN Sent : ~IsMutating(Sent[i])

\* the pre-checks of the last invocation, in the order the handler awaits them
PreChecks ==
    CASE call.tool = "drop_column" ->
             <<ColumnExistsQuery(call.args.table, call.args.column)>>
      [] call.tool = "rename_column" ->
             <<ColumnExistsQuery(call.args.table, call.args.oldName),
               ColumnExistsQuery(call.args.table, call.args.newName)>>
      [] call.tool = "rename_table" ->
             <<TableExistsQuery(call.args.oldName), TableExistsQuery(call.args.newName)>>
      [] OTHER -> <<>>

\* the answer that lets the handler go on: the target exists, the new name
\* does not
Wanted == <<"rows", "empty">>

\* C12: RenameColumn, RenameTable and DropColumn send their existence
\* pre-checks before the mutating statement; when a pre-check reports the
\* target missing, or the new name present, the operation fails with an error
\* and the mutating statement is not sent
C12_PreCheckBeforeMutation ==
    call.tool \in {"drop_column", "rename_column", "rename_table"} =>
        /\ \A i \in DOMAIN Sent :
              IF i <= Len(PreChecks)
              THEN Sent[i] = PreChecks[i]
              ELSE /\ IsMutating(Sent[i])
                   /\ i = Len(PreChecks) + 1
                   /\ \A k \in DOMAIN PreChecks : call.db[k] = Wanted[k]
        /\ \A k \in DOMAIN PreChecks :
              (k <= Len(Sent) /\ call.db[k] \notin {Wanted[k], "fail"}) =>
                  /\ ~call.res.ok
                  /\ call.res.err \in {"Column does not exist", "Column already exists",
                                       "Table does not exist", "Table already exists"}
                  /\ Len(Sent) = k
                  /\ NoMutatingSent

\* a rename whose new name the second pre-check found present
C12_Witness ==
    /\ call.tool = "rename_column"
    /\ Len(Sent) = 2
    /\ call.db = <<"rows", "rows">>
    /\ call.res.err = "Column already exists"

-----------------------------------------------------------------------------
(* Properties of the request handlers *)

\* the last request was a CallTool request
ToolCalled == call.tool \notin {"none", "tools/list"}

\* the tool of the last CallTool request is not in config.enabledTools
Disabled == ToolCalled /\ call.tool \notin config.enabledTools

\* C13: a tool whose name is not in enabledTools is never executed: the
\* CallTool request for it is answered with an error, its handler sends
\* nothing to the database, and ListTools returns exactly the tools of the
\* catalog that enabledTools names
C13_DisabledToolNeverExecuted ==
    /\ Disabled => call.response.isError /\ ~call.res.ok /\ Sent = <<>>
    /\ call.tool = "tools/list" => call.response.content = getAllTools \cap config.enabledTools

\* the last CallTool request failed: its handler, or executeTool, threw
Failed == ToolCalled /\ ~call.res.ok

\* C14: every failure of a tool invocation (a validation error, a translated
\* driver error, an unknown tool name, a handler that is not implemented) is
\* answered by the CallTool request handler with a result flagged isError
\* whose content is {error: true, message} with the message of the error
C14_FailureIsStructuredResult ==
    Failed => /\ call.response.isError
              /\ call.response.content.error
              /\ call.response.content.message = call.res.err

\* an unknown tool name was answered with the structured error
C14_Witness ==
    /\ call.tool \in UnknownNames
    /\ call.response.isError
    /\ call.response.content.message = "Unknown tool"

\* C15: the details field of an error result never holds a raw stack trace
\* or a secret: it is absent or a short remediation hint
C15_DetailsCarryNoStack ==
    Failed => call.response.content.details.kind \in {"absent", "hint"}

\* the fields of a record
Fields(r) == DOMAIN r

\* what the last Transaction returned to the request handler
Returned == TransactionReturn(call.args.operations, Sent)

\* C16: a Transaction that fails at step k returns an error that names step k
\* by the description attached to that step's compiled statement; one that
\* succeeds returns results with exactly one entry per step, in step order,
\* each carrying the description and the affectedRows of its step
C16_StepsDescribed ==
    call.tool = "transaction" =>
        /\ (call.res.ok =>
               /\ Len(Returned.results) = Len(call.args.operations)
               /\ \A i \in DOMAIN Returned.results :
                      /\ {"description", "affectedRows"} \subseteq Fields(Returned.results[i])
                      /\ Returned.results[i].description = Sent[i].description)
        /\ (~call.res.ok /\ Sent # <<>> =>
               \E k \in DOMAIN Sent :
                   /\ "description" \in Fields(Sent[k])
                   /\ call.response.content.message = Sent[k].description)

\* the step types that modify the schema
SchemaSteps == {"add_column", "add_index"}

\* a Transaction of schema modifications, alone or followed by data
\* operations that compile
SchemaFirst(operations) ==
    \E n \in DOMAIN operations :
        /\ \A i \in 1..n : operations[i].type \in SchemaSteps
        /\ \A i \in (n + 1)..Len(operations) :
              /\ operations[i].type \notin SchemaSteps \cup {"transaction"}
              /\ CompileStep(operations[i]).err = ""

\* C17: a Transaction whose operations are schema modifications (add_column,
\* add_index), alone or followed by data operations, is accepted: it is
\* compiled to one statement per step, in the listed order, all of them sent
\* inside the transaction
C17_SchemaStepsAccepted ==
    (call.tool = "transaction" /\ SchemaFirst(call.args.operations)) =>
        /\ call.res.err \in {"", "Database error"}
        /\ Len(Sent) = Len(call.args.operations)
        /\ \A i \in DOMAIN Sent : Sent[i].via = "transaction"

\* word w2 follows token w1 with nothing but spaces in between
Chained(text, w1, w2) ==
    \E i, j \in DOMAIN text :
        /\ i < j
        /\ LowerTok(text[i]) = w1
        /\ LowerTok(text[j]) = w2
        /\ \A m \in (i + 1)..(j - 1) : text[m] = " "

\* the three reasons the claim gives for refusing a query that may write
StackedMutation(text) ==
    \E w \in {"drop", "delete", "update", "insert"} : Chained(text, ";", w)

CommentMarker(text) == \E i \in DOMAIN text : text[i] \in {"--", "/*", "*/"}

NamesInformationSchema(text) ==
    \E i \in DOMAIN text : LowerTok(text[i]) = "information_schema"

\* the fourth reason the code has: UNION SELECT
UnionSelect(text) == Chained(text, "union", "select")

\* the write-verb gate and the pass-through of the query and its params
ExecuteGated ==
    /\ (~call.args.allowWrite /\ HasWord(call.args.query, WriteKeywords))
           => (~call.res.ok /\ Sent = <<>>)
    /\ Sent # <<>> =>
           Sent = <<Stmt(<<Txt("query", call.args.query)>>, call.args.params, "query")>>

\* C18 as stated: without allowWrite a query with a write verb as a whole word
\* is refused and never sent; with allowWrite a query is refused only if it
\* holds a ";"-chained drop, delete, update or insert, a comment marker or an
\* information_schema pattern; what is sent is the query with the caller's
\* params unchanged
C18_RefusedOnlyForThreeReasons ==
    call.tool = "execute" =>
        /\ ExecuteGated
        /\ (call.args.allowWrite /\ Sent = <<>>) =>
               \/ StackedMutation(call.args.query)
               \/ CommentMarker(call.args.query)
               \/ NamesInformationSchema(call.args.query)

\* C18 with the fourth reason: with allowWrite a query is refused only if it
\* holds a ";"-chained drop, delete, update or insert, a comment marker, an
\* information_schema pattern or UNION SELECT
C18_RefusedOnlyForFourReasons ==
    call.tool = "execute" =>
        /\ ExecuteGated
        /\ (call.args.allowWrite /\ Sent = <<>>) =>
               \/ StackedMutation(call.args.query)
               \/ CommentMarker(call.args.query)
               \/ NamesInformationSchema(call.args.query)
               \/ UnionSelect(call.args.query)

\* a single DROP TABLE users with allowWrite was sent with its params
C18_Witness ==
    /\ call.tool = "execute"
    /\ call.args.allowWrite
    /\ call.args.query = <<"DROP", " ", "TABLE", " ", "users">>
    /\ call.args.params = <<VNum("1")>>
    /\ Sent = <<Stmt(<<Txt("query", call.args.query)>>, call.args.params, "query")>>

\* some record has another key set than record 0
KeySetsDiffer(data) ==
    \E i \in DOMAIN data : Range(Keys(data[i])) # Range(Keys(data[1]))

\* the pieces of a statement that are placeholders, or come from the source
PiecesOf(sql, kind) == SelectSeq(sql, LAMBDA piece : piece.k = kind)

\* one INSERT with one placeholder group per record, the columns in the key
\* order of record 0, and parameter (i - 1) * |columns| + j the value of
\* record i for column j
OneInsert(data) ==
    LET columns == Keys(data[1])
        n == Len(columns)
        insert == Sent[1]
    IN  /\ Len(Sent) = 1
        /\ insert.sql[1] = Lit("INSERT INTO ")
        /\ Len(SelectSeq(insert.sql, LAMBDA piece : piece = Lit("("))) = Len(data)
        /\ Len(PiecesOf(insert.sql, "ph")) = Len(data) * n
        /\ [j \in 1..n |-> PiecesOf(insert.sql, "id")[j + 1].v] = columns
        /\ Len(insert.params) = Len(data) * n
        /\ \A i \in DOMAIN data : \A j \in 1..n :
              insert.params[(i - 1) * n + j] = Lookup(data[i], columns[j])

\* a bulk insert of no record, or of records whose key sets differ, fails
\* and sends nothing
BulkRefused ==
    (call.args.data = <<>> \/ KeySetsDiffer(call.args.data))
        => (~call.res.ok /\ Sent = <<>>)

\* the table name and every key are valid identifiers, every record is an
\* object and record 0 has a key
BulkWellFormed ==
    /\ IsValidIdentifier(call.args.table)
    /\ \A i \in DOMAIN call.args.data :
          /\ call.args.data[i].present
          /\ \A key \in Range(Keys(call.args.data[i])) : IsValidIdentifier(key)
    /\ call.args.data # <<>> => Keys(call.args.data[1]) # <<>>

\* C19 as stated: a standalone BulkInsert fails and sends nothing when the
\* record list is empty or a record's key set differs from that of record 0;
\* otherwise it sends exactly one INSERT with one placeholder group per
\* record, the columns in record-0 key order and the parameters row-major
C19_BulkInsertOtherwiseSent ==
    call.tool = "bulk_insert" =>
        /\ BulkRefused
        /\ ~(call.args.data = <<>> \/ KeySetsDiffer(call.args.data))
               => OneInsert(call.args.data)

\* C19 for a well-formed request: the same, the INSERT being sent when also
\* the table name and the keys are valid identifiers and record 0 has a key
C19_BulkInsertWellFormedSent ==
    call.tool = "bulk_insert" =>
        /\ BulkRefused
        /\ (BulkWellFormed /\ ~(call.args.data = <<>> \/ KeySetsDiffer(call.args.data)))
               => OneInsert(call.args.data)

\* two records with the same two keys in different order were inserted
C19_Witness ==
    /\ call.tool = "bulk_insert"
    /\ Len(call.args.data) = MaxRecords
    /\ Keys(call.args.data[1]) = <<colA, id>>
    /\ Keys(call.args.data[2]) = <<id, colA>>
    /\ call.res.ok
    /\ OneInsert(call.args.data)

\* the last invocation handed a where map to buildWhereClause, which accepted
\* it, and sent the statement built with the clause
WhereBuilt ==
    /\ call.tool \in {"read", "update", "delete"}
    /\ call.args.where.present
    /\ Sent # <<>>

\* the positions of the column names in a clause, in order
NamePositions(clause) ==
    SelectSeq([i \in DOMAIN clause |-> i], LAMBDA i : clause[i].k = "id")

\* the number of "?" in a clause
Placeholding(piece) == piece.k = "ph" \/ piece = Lit(" = ?")

QuestionMarks(clause) == Len(SelectSeq(clause, Placeholding))

\* the pieces of the i-th term, from its column name up to the next one
Term(clause, i) ==
    LET pos == NamePositions(clause)
    IN  SubSeq(clause, pos[i], IF i < Len(pos) THEN pos[i + 1] - 1 ELSE Len(clause))

\* what a term of the clause and its parameters must be for one entry
TermFor(e, term) ==
    /\ term[1].v = e.key
    /\ term[3] = CASE e.val.t = "null" -> Lit(" IS NULL")
                    [] e.val.t = "arr" -> Lit(" IN (")
                    [] OTHER -> Lit(" = ?")
    /\ QuestionMarks(term) = CASE e.val.t = "null" -> 0
                                [] e.val.t = "arr" -> Len(e.val.v)
                                [] OTHER -> 1

ParamsFor(e) ==
    CASE e.val.t = "null" -> <<>>
      [] e.val.t = "arr" -> [j \in DOMAIN e.val.v |-> VNum(e.val.v[j])]
      [] OTHER -> <<e.val>>

\* the sequence part is the end of the sequence whole
EndsWith(whole, part) ==
    /\ Len(part) <= Len(whole)
    /\ SubSeq(whole, Len(whole) - Len(part) + 1, Len(whole)) = part

\* the sequence part occurs in the sequence whole
Holds(whole, part) ==
    \E k \in 0..(Len(whole) - Len(part)) : SubSeq(whole, k + 1, k + Len(part)) = part

-----------------------------------------------------------------------------
(* Properties of limit and offset *)

\* the argument was supplied
Supplied(x) == x.t # "absent"

\* the argument is an integer, written as a number or as a numeric string
IsInteger(x) == x.hasInt /\ ~x.extra

\* the numbers a statement carries after LIMIT
LimitsOf(stmt) ==
    {stmt.sql[i].v : i \in {j \in DOMAIN stmt.sql : stmt.sql[j].k = "num"
                                                    /\ stmt.sql[j].src = "limit"}}

\* C21: a Read whose limit is supplied and is not an integer in 1..10000, or
\* whose offset is supplied and is not an integer >= 0, sends no query; every
\* query sent with a limit carries a LIMIT between 1 and 10000
C21_LimitAndOffsetValidated ==
    call.tool = "read" =>
        /\ (Supplied(call.args.limit)
              /\ ~(IsInteger(call.args.limit) /\ call.args.limit.n \in 1..MaxLimit))
               => Sent = <<>>
        /\ (Supplied(call.args.offset)
              /\ ~(IsInteger(call.args.offset) /\ call.args.offset.n >= 0))
               => Sent = <<>>
        /\ \A i \in DOMAIN Sent : \A l \in LimitsOf(Sent[i]) :
               \E n \in 1..MaxLimit : l = <<ToString(n)>>

-----------------------------------------------------------------------------
(* Properties of RenameColumn *)

\* the arguments of rename_column a piece of SQL text can come from
RenameArguments == {"table", "oldName", "newName", "newDefinition"}

\* the definition part of CHANGE COLUMN: what follows the new name
DefinitionPart(stmt) == stmt.sql[Len(stmt.sql)]

\* a rename_column without newDefinition got as far as its ALTER TABLE
RenamedWithoutDefinition ==
    /\ call.tool = "rename_column"
    /\ call.args.newDefinition = <<>>
    /\ Sent # <<>>
    /\ Sent[Len(Sent)].sql[1] = Lit("ALTER TABLE ")

\* C22: a RenameColumn without newDefinition keeps the column's definition:
\* the definition part of the CHANGE COLUMN statement is the definition the
\* column has in the database, not the old column name nor any other text
\* the caller supplied
C22_RenameKeepsDefinition ==
    RenamedWithoutDefinition =>
        /\ DefinitionPart(Sent[Len(Sent)]).src \notin RenameArguments
        /\ DefinitionPart(Sent[Len(Sent)]).v # call.args.oldName

-----------------------------------------------------------------------------
(* Properties of the retry loops *)

\* the calls that run one of the two retry loops
Looping == Running("query") \cup Running("transaction")

\* the delays slept so far are retryDelay * 1, retryDelay * 2, ... one after
\* each failed attempt that was followed, or is about to be followed, by
\* another attempt
LinearBackoff(q) ==
    /\ \A k \in DOMAIN q.slept : q.slept[k] = retryDelay * k
    /\ Len(q.slept) \in {q.attempt - 1, q.attempt}
    /\ Len(q.slept) = q.attempt => q.pc = "release" /\ q.next = "retry"
    /\ q.pc = "done" => Len(q.slept) = q.attempt - 1

\* C23: in the retry loops of query and transaction the delay slept after
\* failed attempt k is retryDelay * k, a delay is slept only between attempts
\* (never after the last attempt nor after a failure that is not retried), and
\* the error finally thrown is the translation of the last attempt's error
C23_LinearBackoffLastErrorTranslated ==
    \A p \in Looping :
        /\ LinearBackoff(proc[p])
        /\ (proc[p].pc = "done" /\ proc[p].outcome = "thrown")
               => proc[p].thrown = formatDatabaseError(proc[p].lastError)

\* the calls an attempt has made on its connection when it is about to
\* execute statement i: BEGIN and the statements before i, all successful
Upto(i) == <<Call("BEGIN", 0, TRUE)>> \o [k \in 1..(i - 1) |-> Call("EXEC", k, TRUE)]

\* C24: a transaction attempt that follows a failed one acquires a connection
\* anew and executes the whole list again from the first statement inside a
\* new BEGIN, with none of the results of the failed attempt; the list
\* returned has one entry per statement, in statement order, all of them from
\* the attempt that committed
C24_RetryStartsOver ==
    \A p \in Running("transaction") :
        LET q == proc[p]
        IN  /\ q.pc = "acquire" => q.held = {}
            /\ q.pc = "begin" => q.trace = <<>> /\ q.results = <<>> /\ q.held # {}
            /\ q.pc = "execute" =>
                   /\ q.trace = Upto(q.idx)
                   /\ q.results = [k \in 1..(q.idx - 1) |-> k]
            /\ (q.pc = "done" /\ q.outcome = "returned") =>
                   /\ q.results = [k \in 1..q.n |-> k]
                   /\ q.trace = Upto(q.n + 1) \o <<Call("COMMIT", 0, TRUE)>>

\* a transaction of MaxStmts statements returned from its second attempt
C24_Witness ==
    \E p \in Ended("transaction") :
        /\ proc[p].outcome = "returned"
        /\ proc[p].attempt = 2
        /\ proc[p].n = MaxStmts
        /\ proc[p].slept = <<retryDelay>>
        /\ proc[p].results = [k \in 1..MaxStmts |-> k]

\* the calls waiting in the backoff delay of a retry loop
Sleeping == {p \in Looping : proc[p].pc = "sleep"}

\* C25: a call that waits in a retry backoff delay holds no connection of the
\* pool: the connection of the failed attempt was released before the delay
\* began, so the delay keeps no other call waiting for a connection
C25_NoConnectionHeldInBackoff ==
    \A p \in Sleeping : proc[p].held = {}

\* the calls of transaction and schemaTransaction that ended with an error
\* after their ROLLBACK had failed
RollbackFailed ==
    {p \in Ended("transaction") \cup Ended("schemaTransaction") :
        /\ proc[p].outcome = "thrown"
        /\ proc[p].trace # <<>>
        /\ proc[p].trace[Len(proc[p].trace)] = Call("ROLLBACK", 0, FALSE)}

\* no connection of the pool that is not checked out has a transaction open
FreeConnectionsClosed == \A c \in Free : ~conn[c].open

\* C26: a connection is never returned to the pool with a transaction still
\* open, also when the ROLLBACK call fails, and a failing ROLLBACK never
\* replaces the original failure as the error the caller gets
C26_ReleasedWithoutOpenTransaction ==
    /\ FreeConnectionsClosed
    /\ \A p \in RollbackFailed :
          proc[p].thrown = formatDatabaseError(proc[p].lastError)

\* C27: the statement of a query call (a Create, Update or Delete sent
\* through query) is applied by the database at most once, however many
\* attempts the call makes, also when an attempt was applied but reported to
\* the engine as a retryable failure
C27_QueryAppliedAtMostOnce ==
    \A p \in Running("query") : committed[Tag(p, 1)] <= 1

-----------------------------------------------------------------------------
(* Properties of the steps of a Transaction *)

\* what the standalone handler does with the arguments of a step when the
\* database answers
Standalone(op) ==
    CASE op.type = "create" -> CreateResult(op, "rows")
      [] op.type = "update" -> UpdateResult(op, "rows")
      [] op.type = "delete" -> DeleteResult(op, "rows")
      [] op.type = "bulk_insert" ->
             BulkInsertResult([table |-> op.table, data |-> op.records], "rows")

\* the step is accepted exactly when the standalone operation is, with the
\* same SQL text and the same parameters
SameAsStandalone(op) ==
    LET alone == Standalone(op).sent
        step == CompileStep(op)
    IN  /\ (step.err = "") <=> (alone # <<>>)
        /\ (step.err = "" /\ alone # <<>>) =>
               /\ step.q.sql = alone[1].sql
               /\ step.q.params = alone[1].params

\* C28: a create, update, delete or bulk_insert step of a Transaction is
\* accepted exactly when the standalone operation with the same arguments is,
\* and compiles to the same SQL text and parameter list; a bulk_insert step
\* whose records differ in their key sets is rejected
C28_StepCompilesAsStandalone ==
    \A op \in StepsOf(call) :
        op.type \in {"create", "update", "delete", "bulk_insert"} => SameAsStandalone(op)

-----------------------------------------------------------------------------
(* Properties of concurrent schema operations *)

\* C29: with schema operations running concurrently, the pre-check and the
\* mutating statement of RenameColumn, RenameTable, DropColumn and DropIndex
\* act as one atomic step: the mutating statement is sent only for a target
\* that still exists and, for a rename, a new name that is still free
C29_CheckAndMutationAtomic ==
    \A p \in Callers : proc[p].sent => proc[p].valid

-----------------------------------------------------------------------------
(* Properties of the failures of a transaction *)

\* the transactions that ended with an error
FailedTransactions ==
    {p \in Ended("transaction") : proc[p].outcome = "thrown"}

\* C30: a retryable failure at any point of a transaction attempt (acquiring
\* the connection, BEGIN, a statement or COMMIT) is retried while attempts
\* remain, so a transaction that ends with a retryable error has used all its
\* attempts, and the error it throws is one the error translator produced,
\* never the driver's own error
C30_EveryFailureRetriedAndTranslated ==
    \A p \in FailedTransactions :
        /\ proc[p].thrown # RawError
        /\ isRetryableError(proc[p].lastError) => proc[p].attempt = maxRetries(p)

====
